---------------------------- MODULE Spec2Model ----------------------------
(***************************************************************************)
(* A model of the gesture-driven bubble simulation of MicroverseCanvas     *)
(* (src/unnamed/part_001): the per-frame `update` handler and the four     *)
(* mouse handlers, with the state they share.                              *)
(*                                                                         *)
(* Numbers.  The program computes in IEEE doubles.  The model computes in  *)
(* integers:                                                               *)
(*   - lengths, positions and velocities in 1/PX of a pixel;               *)
(*   - a bubble's radius as its exact square `rsq` (pixel^2), so that      *)
(*     sqrt(r1^2 + r2^2) and Math.min(., 220) are exact: the radius is     *)
(*     the real number sqrt(rsq);                                          *)
(*   - landmarks in 1/NORM of the canvas (MediaPipe's 0..1 range);         *)
(*   - stateTimer in 1/1000, particle life in 1/LIFE;                      *)
(*   - Date.now() as the millisecond clock `now`.                          *)
(* Math.random() is an input of each handler (the record `rnd`).           *)
(* Fields that only drive drawing (hue, phase, wobble, rotation, colour,   *)
(* size, stretch, a particle's x and vx) are not part of the state.        *)
(***************************************************************************)
EXTENDS Integers, Sequences, FiniteSets, TLC

VARIABLES
    bubbles,        \* bubbles.current: the store, a sequence of bubble records
    particles,      \* particles.current
    handResults,    \* handResults.current: this frame's hands
    prevHandData,   \* prevHandData.current: slot -> smoothing state, history
    abc,            \* activeBubbleCreation.current: << >> for null, or << it >>
    lockedTarget,   \* lockedTarget.current: << >> for null, or << it >>
    mouse,          \* mouseRef.current
    mouseTrail,     \* mouseTrailRef.current: << >> for null, or << it >>
    spawnTimer,     \* spawnTimer.current
    lastVideoTime,  \* lastVideoTime.current
    videoTime,      \* the video element's currentTime (environment)
    now,            \* Date.now() (environment)
    nextId,         \* the ids handed out so far (Math.random ids are fresh)
    ticks,          \* the frames of the run: update runs while ticks < MaxTicks
    obs,            \* what the last handler did: its calls and removals
    hist            \* what has happened to each bubble id so far

vars == << bubbles, particles, handResults, prevHandData, abc, lockedTarget,
           mouse, mouseTrail, spawnTimer, lastVideoTime, videoTime, now,
           nextId, ticks, obs, hist >>

---------------------------------------------------------------------------
(* Units *)

PX == 100
NORM == 10000
LIFE == 10000

(* Program constants *)

GESTURE_HISTORY_SIZE == 6
MAX_BUBBLES == 35
BUBBLE_SPAWN_RATE == 50
GRAVITY == 5                 \* 0.05 px per tick^2, in 1/PX px
AIR_RESISTANCE == 98         \* 0.98, in percent
MAX_RADIUS == 220
GRACE_MS == 1500
LOCK_RANGE == 80
TOUCH_RANGE == 15
SWIPE_SPEED == 10
REPEL_RANGE == 120
SPAWN_STEP == 15
TRAIL_CAP == 5
AMBIENT_CAP == 15
PINCH_START_RADIUS == 15
PRESS_START_RADIUS == 10
PINCH_MIN_RADIUS == 20
PRESS_MIN_RADIUS == 12
DRAG_THRESHOLD == 10
FAR_X == 300
WIDTH == 400                 \* canvas.width
HEIGHT == 300                \* canvas.height

(* MediaPipe landmark indices, 1-based in the model's sequences *)
WRIST == 0
THUMB_TIP == 4
INDEX_MCP == 5
INDEX_TIP == 8
MIDDLE_MCP == 9
MIDDLE_TIP == 12
RING_MCP == 13
RING_TIP == 16
PINKY_MCP == 17
PINKY_TIP == 20
LANDMARKS == 21

(* Bounds of the model *)
MaxTicks == 4
MaxHands == 2
FrameMs == 1500              \* the time between two runs of update

---------------------------------------------------------------------------
(* Arithmetic *)

Abs(a) == IF a < 0 THEN -a ELSE a
Min(a, b) == IF a < b THEN a ELSE b
Max(a, b) == IF a > b THEN a ELSE b

\* a * num / den, rounded toward zero as a double's product is to the model's grid
Scale(a, num, den) == IF a >= 0 THEN (a * num) \div den ELSE -(((-a) * num) \div den)

RECURSIVE SqrtIter(_, _)
SqrtIter(n, x) ==
    LET y == (x + n \div x) \div 2
    IN  IF y >= x THEN x ELSE SqrtIter(n, y)

\* floor(sqrt(n)), Newton's iteration from above
ISqrt(n) == IF n <= 0 THEN 0 ELSE SqrtIter(n, 46341)

\* Math.hypot on the model's grid, to a tenth of a pixel
Hypot(dx, dy) ==
    LET ax == Abs(dx) \div 10
        ay == Abs(dy) \div 10
    IN  10 * ISqrt(ax * ax + ay * ay)

\* the radius sqrt(rsq) on the model's grid
Radius(rsq) == ISqrt(rsq * PX * PX)

Pt(px, py) == [x |-> px, y |-> py]
dist(p1, p2) == Hypot(p1.x - p2.x, p1.y - p2.y)
lerp(start, end, factor, den) == start + Scale(end - start, factor, den)

SeqSum(f, s) ==
    LET RECURSIVE Go(_)
        Go(k) == IF k = 0 THEN 0 ELSE f[s[k]] + Go(k - 1)
    IN  Go(Len(s))

RemoveAt(s, i) == SubSeq(s, 1, i - 1) \o SubSeq(s, i + 1, Len(s))

\* const v = e; ... v ...: the value e under the name the body F gives it
With(e, F(_)) == F(e)

---------------------------------------------------------------------------
(* Hands: raw samples, smoothing, gesture classification, majority vote *)

Gestures == {"NONE", "PINCH", "FIST", "POINT", "OPEN_HAND"}

\* landmark i (MediaPipe's 0-based index) of a landmark sequence
LM(l, i) == l[i + 1]

\* getP: a normalized landmark in screen space
getP(l, i) == Pt((LM(l, i).x * WIDTH * PX) \div NORM, (LM(l, i).y * HEIGHT * PX) \div NORM)

dist2d(l, i, j) == dist(getP(l, i), getP(l, j))

curled(l, tip, mcp) == IF dist2d(l, tip, mcp) < 50 * PX THEN 1 ELSE 0

curledCount(l) ==
    curled(l, INDEX_TIP, INDEX_MCP) + curled(l, MIDDLE_TIP, MIDDLE_MCP)
    + curled(l, RING_TIP, RING_MCP) + curled(l, PINKY_TIP, PINKY_MCP)

\* indexExt > 60 && (middleExt < 80 || indexExt > middleExt + 40)
Pointing(indexExt, middleExt) ==
    indexExt > 60 * PX /\ (middleExt < 80 * PX \/ indexExt > middleExt + 40 * PX)

determineGesture(l) ==
    IF curledCount(l) >= 3 THEN "FIST"
    ELSE IF dist2d(l, THUMB_TIP, INDEX_TIP) < 50 * PX THEN "PINCH"
    ELSE IF Pointing(dist2d(l, INDEX_TIP, INDEX_MCP), dist2d(l, MIDDLE_TIP, MIDDLE_MCP)) THEN "POINT"
    ELSE "OPEN_HAND"

\* gestureHistory.push(rawGesture); if (length > GESTURE_HISTORY_SIZE) shift()
PushHistory(h, g) ==
    LET pushed == Append(h, g)
    IN  IF Len(pushed) > GESTURE_HISTORY_SIZE THEN Tail(pushed) ELSE pushed

\* counts[g]: how often g is in the window
Count(h, g) == Cardinality({k \in 1..Len(h) : h[k] = g})

\* Object.entries(counts): the window's values in the order they first appear
RECURSIVE Keys(_, _)
Keys(h, seen) ==
    IF h = << >> THEN << >>
    ELSE IF Head(h) \in seen THEN Keys(Tail(h), seen)
    ELSE << Head(h) >> \o Keys(Tail(h), seen \cup {Head(h)})

\* the forEach over the entries: a strictly larger count replaces the choice
RECURSIVE Vote(_, _, _, _)
Vote(keys, h, stable, maxCount) ==
    IF keys = << >> THEN stable
    ELSE IF Count(h, Head(keys)) > maxCount
         THEN Vote(Tail(keys), h, Head(keys), Count(h, Head(keys)))
    ELSE Vote(Tail(keys), h, stable, maxCount)

StableGesture(h, rawGesture) == Vote(Keys(h, {}), h, rawGesture, 0)

\* landmarks.map(lm => ({ x: 1 - lm.x, y: lm.y }))
Mirror(raw) == [k \in 1..Len(raw) |-> Pt(NORM - raw[k].x, raw[k].y)]

\* alpha = Math.min(0.7, Math.max(0.15, distMoved * 0.015)), in 1/1000
Alpha(distMoved) == Min(700, Max(150, (distMoved * 15) \div PX))

\* the smoothed landmarks: lerp(prevLm, curr, alpha) on both coordinates
Smooth(cur, prevLandmarks, alpha) ==
    [k \in 1..Len(cur) |-> Pt(lerp(prevLandmarks[k].x, cur[k].x, alpha, 1000),
                              lerp(prevLandmarks[k].y, cur[k].y, alpha, 1000))]

\* the hand returned by the map and the record stored for its slot
Tracked(landmarks, center, velocity, history, lastTrailPos, rawGesture) ==
    [ hand |-> [ landmarks |-> landmarks, center |-> center, velocity |-> velocity,
                 gesture |-> StableGesture(history, rawGesture) ],
      prev |-> [ landmarks |-> landmarks, center |-> center, velocity |-> velocity,
                 gestureHistory |-> history, lastTrailPos |-> lastTrailPos ] ]

\* determineGesture(tempHand), the push and the vote
Classified(landmarks, center, velocity, history, lastTrailPos) ==
    With(determineGesture(landmarks), LAMBDA rawGesture :
        Tracked(landmarks, center, velocity, PushHistory(history, rawGesture), lastTrailPos,
                rawGesture))

\* a hand seen before: smoothed against the slot's record
Followed(cur, rawCenter, prev) ==
    With(Smooth(cur, prev.landmarks, Alpha(dist(rawCenter, prev.center))), LAMBDA smoothed :
        With(getP(smoothed, MIDDLE_MCP), LAMBDA center :
            Classified(smoothed, center,
                       Pt(center.x - prev.center.x, center.y - prev.center.y),
                       prev.gestureHistory, prev.lastTrailPos)))

\* One element of detections.landmarks.map(...): the hand of slot i and the
\* record stored for the slot.  `prev` is << >> or << record >>.
ProcessHand(raw, prev) ==
    With(Mirror(raw), LAMBDA cur :
        With(getP(cur, MIDDLE_MCP), LAMBDA rawCenter :
            IF prev # << >> THEN Followed(cur, rawCenter, prev[1])
            ELSE Classified(cur, rawCenter, Pt(0, 0), << >>, rawCenter)))

\* the fingertip of a hand in screen space
IndexTip(hand) == getP(hand.landmarks, INDEX_TIP)

(* Raw samples the camera can deliver: a hand shape at an anchor point.      *)
(* Finger joints sit on the anchor (the middle-finger MCP); an extended      *)
(* finger's tip is 90 px above it, a curled one's 30 px; the thumb tip is    *)
(* on the index tip for a pinch and 100 px aside otherwise.  The pointing    *)
(* hand points down: its index tip is 90 px below the anchor.                *)
EXT == 3000
CURL == 1000
THUMB_ASIDE == 2500

Shapes == [ PINCH     |-> [index |-> EXT,  middle |-> EXT,  ring |-> EXT,  pinky |-> EXT,  pinch |-> TRUE],
            FIST      |-> [index |-> CURL, middle |-> CURL, ring |-> CURL, pinky |-> CURL, pinch |-> FALSE],
            POINT     |-> [index |-> -EXT, middle |-> CURL, ring |-> CURL, pinky |-> EXT,  pinch |-> FALSE],
            OPEN_HAND |-> [index |-> EXT,  middle |-> EXT,  ring |-> EXT,  pinky |-> EXT,  pinch |-> FALSE] ]

\* the 21 raw landmarks of shape `sh` at anchor (ax, ay), before mirroring
Pose(sh, ax, ay) ==
    [k \in 1..LANDMARKS |->
        CASE k = INDEX_TIP + 1  -> Pt(ax, ay - Shapes[sh].index)
          [] k = MIDDLE_TIP + 1 -> Pt(ax, ay - Shapes[sh].middle)
          [] k = RING_TIP + 1   -> Pt(ax, ay - Shapes[sh].ring)
          [] k = PINKY_TIP + 1  -> Pt(ax, ay - Shapes[sh].pinky)
          [] k = THUMB_TIP + 1  -> IF Shapes[sh].pinch THEN Pt(ax, ay - Shapes[sh].index)
                                   ELSE Pt(ax - THUMB_ASIDE, ay)
          [] OTHER              -> Pt(ax, ay)]

---------------------------------------------------------------------------
(* Math.random() *)

Themes == {"NEBULA", "FOREST", "CRYSTAL", "ABSTRACT", "QUANTUM", "CYBER"}

\* randomRange(min, max) for the draw u, in percent of the range
randomRange(min, max, u) == min + Scale(max - min, u, 100)

\* Math.cos and Math.sin of a random angle, for the quarter turns
Cos(a) == CASE a % 4 = 0 -> 1 [] a % 4 = 1 -> 0 [] a % 4 = 2 -> -1 [] OTHER -> 0
Sin(a) == CASE a % 4 = 0 -> 0 [] a % 4 = 1 -> 1 [] a % 4 = 2 -> 0 [] OTHER -> -1

---------------------------------------------------------------------------
(* Bubbles *)

\* createBubble(x, y, r, vx, vy, isTrail): the main bubble and its satellites.
\* r = 0 is the absent radius; r is in whole pixels, vx and vy in 1/PX px.
\* The new bubbles take the ids id0 + 1, id0 + 2, ...
createBubble(x, y, r, vx, vy, isTrail, rnd, id0, t) ==
    LET isLarge == IF r # 0 THEN r > 50 ELSE rnd.large
        radius == IF r # 0 THEN r
                  ELSE IF isLarge THEN randomRange(80, 110, rnd.u) ELSE randomRange(40, 70, rnd.u)
        mainBubble == [ id |-> id0 + 1, x |-> x, y |-> y,
                        rsq |-> radius * radius,
                        vx |-> vx,
                        vy |-> IF vy # 0 THEN vy ELSE randomRange(-50, -120, rnd.u),
                        theme |-> rnd.theme,
                        state |-> "FLOATING", stateTimer |-> 0,
                        mass |-> radius * radius,
                        creationTime |-> t, isTrail |-> isTrail ]
        count == IF isLarge /\ rnd.cluster THEN rnd.count ELSE 0
        smallR == randomRange(15, 30, rnd.u)
        d == radius * PX + smallR * 60
        satellite(i) == [ mainBubble EXCEPT
                            !.id = id0 + 1 + i,
                            !.x = x + Cos(rnd.angle + i) * d,
                            !.y = y + Sin(rnd.angle + i) * d,
                            !.rsq = smallR * smallR,
                            !.vx = mainBubble.vx + randomRange(-10, 10, rnd.u),
                            !.vy = mainBubble.vy + randomRange(-10, 10, rnd.u),
                            !.mass = smallR * smallR ]
    IN  << mainBubble >> \o [i \in 1..count |-> satellite(i)]

\* a slip: the new bubbles pushed with the velocity createBubble gave them
Unreleased(newBubbles) == newBubbles

\* newBubbles.forEach(b => { b.vy = -2; b.vx = 0; bubbles.current.push(b); })
Release(newBubbles) == [k \in 1..Len(newBubbles) |-> [newBubbles[k] EXCEPT !.vy = -2 * PX, !.vx = 0]]

---------------------------------------------------------------------------
(* Particles *)

SPARKS == 50
MISTS == 10
SHARDS == 30
VAPOURS == 50
DROPS == 25

\* n particles pushed one after the other with the same draws: one record
\* of the sequence stands for the n of them
Particle(type, y, vy, life, maxLife, n) ==
    [ type |-> type, y |-> y, vy |-> vy, life |-> life, maxLife |-> maxLife,
      onGround |-> FALSE, n |-> n ]

\* createParticles(b, type): the particles pushed, in order
createParticles(b, type, rnd) ==
    LET r == Radius(b.rsq)
        sin == Sin(rnd.angle)
    IN  IF type = "POPPING"
        THEN << Particle("FLASH", b.y, 0, 1500, 1500, 1),
                Particle("RING", b.y, 0, 4000, 4000, 1),
                Particle("SPARK", b.y + sin * Scale(r, 5, 10),
                         sin * randomRange(5 * PX, 25 * PX, rnd.u),
                         randomRange(3000, 6000, rnd.u), 6000, SPARKS),
                Particle("MIST", b.y + randomRange(-20 * PX, 20 * PX, rnd.u),
                         randomRange(-2 * PX, 2 * PX, rnd.u),
                         randomRange(5000, 10000, rnd.u), 10000, MISTS) >>
        ELSE LET y0 == b.y + sin * Scale(r, 8, 10)
             IN  CASE type = "SHATTER" ->
                        LET life == randomRange(15000, 25000, rnd.u)
                        IN  << Particle("SHARD", y0, randomRange(-5 * PX, 2 * PX, rnd.u), life, life, SHARDS) >>
                   [] type = "MELT" ->
                        LET life == randomRange(20000, 35000, rnd.u)
                        IN  << Particle("LIQUID", y0, randomRange(2 * PX, 6 * PX, rnd.u), life, life, DROPS) >>
                   [] type = "EVAPORATE" ->
                        LET life == randomRange(10000, 20000, rnd.u)
                        IN  << Particle("MIST", y0, randomRange(-1 * PX, -4 * PX, rnd.u), life, life, VAPOURS) >>

\* a slip: a particle on the ground does not decay
StepParticleResting(p) ==
    LET vy1 == CASE p.type = "LIQUID" -> p.vy + (GRAVITY * 15) \div 10
                 [] p.type = "SHARD"  -> p.vy + GRAVITY * 3
                 [] p.type = "MIST"   -> p.vy - 8
                 [] p.type = "SPARK"  -> Scale(p.vy, 92, 100) + (GRAVITY * 5) \div 10
                 [] OTHER             -> p.vy
        lands == p.type \in {"LIQUID", "SHARD"} /\ p.y > (HEIGHT - 5) * PX
        moves == ~lands /\ p.type \notin {"FLASH", "RING"}
        onGround == p.onGround \/ lands
    IN  [ p EXCEPT !.vy = IF lands THEN 0 ELSE vy1,
                   !.y = IF lands THEN (HEIGHT - 5) * PX ELSE IF moves THEN p.y + vy1 ELSE p.y,
                   !.onGround = onGround,
                   !.life = IF onGround THEN p.life
                            ELSE p.life - ((2 * LIFE * LIFE) \div 100) \div p.maxLife ]

\* One pass of the particle loop over one particle: its kinematics and decay
StepParticle(p) ==
    LET vy1 == CASE p.type = "LIQUID" -> p.vy + (GRAVITY * 15) \div 10
                 [] p.type = "SHARD"  -> p.vy + GRAVITY * 3
                 [] p.type = "MIST"   -> p.vy - 8
                 [] p.type = "SPARK"  -> Scale(p.vy, 92, 100) + (GRAVITY * 5) \div 10
                 [] OTHER             -> p.vy
        lands == p.type \in {"LIQUID", "SHARD"} /\ p.y > (HEIGHT - 5) * PX
        moves == ~lands /\ p.type \notin {"FLASH", "RING"}
        onGround == p.onGround \/ lands
    IN  [ p EXCEPT !.vy = IF lands THEN 0 ELSE vy1,
                   !.y = IF lands THEN (HEIGHT - 5) * PX ELSE IF moves THEN p.y + vy1 ELSE p.y,
                   !.onGround = onGround,
                   !.life = IF onGround THEN p.life - LIFE \div 100
                            ELSE p.life - ((2 * LIFE * LIFE) \div 100) \div p.maxLife ]

\* if (p.life <= 0) particles.current.splice(i, 1): the particle stays
Alive(p) == p.life > 0


---------------------------------------------------------------------------
(* update: the working state of one run of the handler.  `w` holds the     *)
(* refs the handler mutates (bs = bubbles, ps = particles, prev =          *)
(* prevHandData, abc, locked, closest, trail = mouseTrailRef, timer =      *)
(* spawnTimer, nid = ids handed out), what it reads (hands, mouse, rnd,    *)
(* t = Date.now()) and the record of its calls (log).                      *)

EmptyLog == [ expanded |-> << >>,   \* onExpandUniverse(theme) calls: [id, theme]
              bursts   |-> << >>,   \* createParticles(b, type) calls: [id, type]
              removed  |-> << >>,   \* bubbles.current.splice calls: [id, cause]
              merges   |-> << >>,   \* merges of the pair scan
              pairs    |-> << >>,   \* the pair scan's passes: << b1.id, b2.id >>
              frozen   |-> << >>,   \* ids set to FROZEN
              touched  |-> << >>,   \* contacts: [id, state, fast, chance], the state
                                    \* the bubble is found in, whether the hand is
                                    \* faster than the swipe threshold, the draw
              created  |-> << >>,   \* bubbles pushed: [id, by, n, part, x, y, rsq, vx,
                                    \* vy, isTrail], n the length of the store before
                                    \* the push, part the bubble's place in the result
                                    \* of createBubble (1 for the main bubble)
              commits  |-> << >>,   \* ActiveCreations turned into bubbles: [by, x, y,
                                    \* radius]
              dropped  |-> << >>,   \* ActiveCreations set to null with no bubble made:
                                    \* [by, radius, dragging]
              trails   |-> << >>,   \* the trail branch of each hand: [slot, gesture,
                                    \* last, center, n, now], the emission point before
                                    \* and after, the number of bubbles pushed
              pushes   |-> << >>,   \* the repulsion's passes: [id, dx, dy, d, range, ix,
                                    \* iy, vx0, vy0, vx1, vy1], the increment and the
                                    \* velocity before and after
              cohered  |-> << >>,   \* pairs given a cohesion force: << b1.id, b2.id >>
              clamped  |-> << >>,   \* bubbles put back at a wall: [id, wall]
              visited  |-> << >>,   \* the bubble loop's passes: the bubble's id
              decayed  |-> << >>,   \* the particle loop's passes: [at, from, to],
                                    \* the index, the life before and after
              entered  |-> << >>,   \* the store and the number of particles the
                                    \* two loops start with
              samples  |-> << >>,   \* the landmark counts of the samples detected
              divided  |-> << >>,   \* the distances a direction was divided by
              nan      |-> << >>,   \* ids of the bubbles whose velocity turned NaN
              thrown   |-> FALSE ]  \* the handler ended in a TypeError

\* bubbles.current.push(...newBubbles), noted in the log
Push(w, newBubbles, by) ==
    [ w EXCEPT !.bs = @ \o newBubbles,
               !.nid = @ + Len(newBubbles),
               !.log.created = @ \o [k \in 1..Len(newBubbles) |->
                                        [id |-> newBubbles[k].id, by |-> by, n |-> Len(w.bs),
                                         part |-> k, x |-> newBubbles[k].x, y |-> newBubbles[k].y,
                                         rsq |-> newBubbles[k].rsq, vx |-> newBubbles[k].vx,
                                         vy |-> newBubbles[k].vy, isTrail |-> newBubbles[k].isTrail]] ]

\* createParticles(b, type); bubbles.current.splice(i, 1); and, when the
\* removal is by interaction, onExpandUniverse(b.theme)
Burst(w, b, type) ==
    [ w EXCEPT !.ps = @ \o createParticles(b, type, w.rnd),
               !.log.bursts = Append(@, [id |-> b.id, type |-> type]) ]

\* a slip: the splice put off, the bubble noted as removed
Unspliced(w, i, cause) ==
    [ w EXCEPT !.log.removed = Append(@, [id |-> w.bs[i].id, cause |-> cause]) ]

Splice(w, i, cause) ==
    [ w EXCEPT !.bs = RemoveAt(@, i),
               !.log.removed = Append(@, [id |-> w.bs[i].id, cause |-> cause]) ]

Expand(w, b) == [ w EXCEPT !.log.expanded = Append(@, [id |-> b.id, theme |-> b.theme]) ]

---------------------------------------------------------------------------
(* update, lines 786-882: the loop over the hands *)

\* the PINCH branch: start an ActiveCreation at the fingertip, or grow it
PinchStep(w, hand) ==
    LET tip == IndexTip(hand)
    IN  IF hand.gesture # "PINCH" THEN w
        ELSE IF w.abc = << >>
        THEN [ w EXCEPT !.abc = << [x |-> tip.x, y |-> tip.y, radius |-> PINCH_START_RADIUS, timer |-> 0] >> ]
        ELSE [ w EXCEPT !.abc = << [ x |-> Scale(w.abc[1].x, 8, 10) + Scale(tip.x, 2, 10),
                                     y |-> Scale(w.abc[1].y, 8, 10) + Scale(tip.y, 2, 10),
                                     radius |-> w.abc[1].radius + 1,
                                     timer |-> w.abc[1].timer + 1 ] >> ]

\* the trail loop: for (s = 1; s <= count; s++) { if (length >= MAX_BUBBLES + 10) break; ... }
RECURSIVE TrailLoop(_, _, _, _, _, _, _)
TrailLoop(w, from, to, vx, vy, k, count) ==
    IF k > count \/ Len(w.bs) >= MAX_BUBBLES + 10 THEN w
    ELSE LET tx == lerp(from.x, to.x, k, count)
             ty == lerp(from.y, to.y, k, count)
             r == randomRange(15, 25, w.rnd.u)
             jitter == 5 * PX
             made == createBubble(tx + randomRange(-jitter, jitter, w.rnd.u),
                                  ty + randomRange(-jitter, jitter, w.rnd.u),
                                  r, vx, vy, TRUE, w.rnd, w.nid, w.t)
         IN  TrailLoop(Push(w, made, "trail"), from, to, vx, vy, k + 1, count)

\* (Math.random() - 0.5) * 1.5
Turbulence(rnd) == Scale(rnd.u - 50, 150, 100)

\* a slip: the count of the trail loop without the cap per frame
TrailMoveUncapped(w, hand, i, last, distMoved) ==
    IF distMoved > SPAWN_STEP * PX
    THEN [ TrailLoop(w, last, hand.center,
                     Scale(hand.velocity.x, 15, 100) + Turbulence(w.rnd),
                     Scale(hand.velocity.y, 15, 100) + Turbulence(w.rnd),
                     1, distMoved \div (SPAWN_STEP * PX))
           EXCEPT !.prev[i] = << [w.prev[i][1] EXCEPT !.lastTrailPos = hand.center] >> ]
    ELSE w

\* the trail of a hand that moved distMoved from `last`
TrailMove(w, hand, i, last, distMoved) ==
    IF distMoved > SPAWN_STEP * PX
    THEN [ TrailLoop(w, last, hand.center,
                     Scale(hand.velocity.x, 15, 100) + Turbulence(w.rnd),
                     Scale(hand.velocity.y, 15, 100) + Turbulence(w.rnd),
                     1, Min(distMoved \div (SPAWN_STEP * PX), TRAIL_CAP))
           EXCEPT !.prev[i] = << [w.prev[i][1] EXCEPT !.lastTrailPos = hand.center] >> ]
    ELSE w

\* the OPEN_HAND branch and its else: trail emission for the hand of slot i
TrailStep(w, hand, i) ==
    IF w.prev[i] = << >> THEN w
    ELSE IF hand.gesture = "OPEN_HAND"
    THEN TrailMove(w, hand, i, w.prev[i][1].lastTrailPos,
                   dist(hand.center, w.prev[i][1].lastTrailPos))
    ELSE [ w EXCEPT !.prev[i] = << [w.prev[i][1] EXCEPT !.lastTrailPos = hand.center] >> ]

\* Math.pow(1 - dist / repelRange, 2) * gain, in 1/PX px
RepelForce(d, repelRange, gain) ==
    LET fall == 1000 - (d * 1000) \div repelRange
    IN  Scale(Scale(fall * fall, gain * PX, 1000), 1, 1000)

\* a slip: the force pulls the bubble towards the point
Pulled(b, dx, dy, d, force, damp) ==
    [ b EXCEPT !.vx = Scale(b.vx - Scale(dx, force, d), damp, 100),
               !.vy = Scale(b.vy - Scale(dy, force, d), damp, 100) ]

\* b.vx += nx * force; b.vy += ny * force; b.vx *= damp; b.vy *= damp
Pushed(b, dx, dy, d, force, damp) ==
    [ b EXCEPT !.vx = Scale(b.vx + Scale(dx, force, d), damp, 100),
               !.vy = Scale(b.vy + Scale(dy, force, d), damp, 100) ]

\* if (dist < repelRange && dist > 0)
Repels(d, repelRange) == d < repelRange /\ d > 0

RepelAt(b, dx, dy, d, repelRange, gain, damp) ==
    IF Repels(d, repelRange)
    THEN Pushed(b, dx, dy, d, RepelForce(d, repelRange, gain), damp)
    ELSE b

\* the repulsion of one bubble from a point: FIST (gain 20, damping 0.92)
\* and the right mouse button (gain 15, damping 0.95)
Repel(b, cx, cy, gain, damp) ==
    RepelAt(b, b.x - cx, b.y - cy, Hypot(b.x - cx, b.y - cy),
            REPEL_RANGE * PX + Radius(b.rsq), gain, damp)

\* the distances dx and dy are divided by, one for each bubble pushed
Divisors(bs, cx, cy) ==
    LET ds == [k \in 1..Len(bs) |->
                  [ d |-> Hypot(bs[k].x - cx, bs[k].y - cy),
                    repelRange |-> REPEL_RANGE * PX + Radius(bs[k].rsq) ]]
        pushed == SelectSeq(ds, LAMBDA e : Repels(e.d, e.repelRange))
    IN  [k \in 1..Len(pushed) |-> pushed[k].d]

\* the pass of the repulsion over bubble b, for the log: the increment
\* (nx * force, ny * force) and the velocity before and after
Shoved(b, after, dx, dy, d, repelRange, gain) ==
    [ id |-> b.id, dx |-> dx, dy |-> dy, d |-> d, range |-> repelRange, gain |-> gain,
      ix |-> IF Repels(d, repelRange) THEN Scale(dx, RepelForce(d, repelRange, gain), d) ELSE 0,
      iy |-> IF Repels(d, repelRange) THEN Scale(dy, RepelForce(d, repelRange, gain), d) ELSE 0,
      vx0 |-> b.vx, vy0 |-> b.vy, vx1 |-> after.vx, vy1 |-> after.vy ]

Shove(b, cx, cy, gain, damp) ==
    Shoved(b, Repel(b, cx, cy, gain, damp), b.x - cx, b.y - cy, Hypot(b.x - cx, b.y - cy),
           REPEL_RANGE * PX + Radius(b.rsq), gain)

RepelAll(w, cx, cy, gain, damp) ==
    [ w EXCEPT !.bs = [k \in 1..Len(w.bs) |-> Repel(w.bs[k], cx, cy, gain, damp)],
               !.log.divided = @ \o Divisors(w.bs, cx, cy),
               !.log.pushes = @ \o [k \in 1..Len(w.bs) |-> Shove(w.bs[k], cx, cy, gain, damp)] ]

\* a slip: no grace period
EligibleAtOnce(b, t) == TRUE

\* the grace period: a bubble younger than 1.5 s is skipped by targeting
Eligible(b, t) == ~(t - b.creationTime < GRACE_MS)

\* the body of the forEach of the POINT branch for bubble b at distance d
PointAt(w, b, d) ==
    IF Eligible(b, w.t) /\ d < Radius(b.rsq) + LOCK_RANGE * PX /\ d < w.closest
    THEN [ w EXCEPT !.closest = d,
                    !.locked = << [id |-> b.id, x |-> b.x, y |-> b.y, rsq |-> b.rsq] >> ]
    ELSE w

\* the POINT branch: the forEach over the bubbles, keeping the nearest
RECURSIVE PointLoop(_, _, _)
PointLoop(w, tip, k) ==
    IF k > Len(w.bs) THEN w
    ELSE PointLoop(PointAt(w, w.bs[k], Hypot(w.bs[k].x - tip.x, w.bs[k].y - tip.y)), tip, k + 1)

FistStep(w, hand) ==
    IF hand.gesture = "FIST" THEN RepelAll(w, hand.center.x, hand.center.y, 20, 92) ELSE w

PointStep(w, hand) ==
    IF hand.gesture = "POINT" THEN PointLoop(w, IndexTip(hand), 1) ELSE w

\* the trail branch of the hand of slot i has taken w to `after`
Trailed(w, after, hand, i) ==
    IF w.prev[i] = << >> THEN after
    ELSE [ after EXCEPT !.log.trails = Append(@,
               [ slot |-> i, gesture |-> hand.gesture, center |-> hand.center,
                 last |-> w.prev[i][1].lastTrailPos, n |-> Len(after.bs) - Len(w.bs),
                 now |-> after.prev[i][1].lastTrailPos ]) ]

Trail(w, hand, i) == Trailed(w, TrailStep(w, hand, i), hand, i)

\* handResults.current.forEach((hand, index) => ...)
RECURSIVE HandLoop(_, _)
HandLoop(w, i) ==
    IF i > Len(w.hands) THEN w
    ELSE HandLoop(PointStep(FistStep(Trail(PinchStep(w, w.hands[i]), w.hands[i], i),
                                     w.hands[i]), w.hands[i]), i + 1)

---------------------------------------------------------------------------
(* update, lines 884-986: mouse, release, ambient spawn *)

\* the right button held: repel from the pointer
RightStep(w) ==
    IF w.mouse.isRightDown
    THEN [ RepelAll(w, w.mouse.x, w.mouse.y, 15, 95) EXCEPT !.trail = << >> ]
    ELSE w

\* the ActiveCreation goes without a bubble, noted in the log
Drop(w, by) ==
    [ w EXCEPT !.log.dropped = Append(@, [ by |-> by, radius |-> w.abc[1].radius,
                                           dragging |-> w.mouse.isDragging ]) ]

\* dragging: cancel the long press, start the trail at the pointer
DragStart(w) ==
    [ (IF w.abc # << >> THEN Drop(w, "drag") ELSE w)
      EXCEPT !.abc = << >>,
             !.trail = IF @ = << >> THEN << Pt(w.mouse.x, w.mouse.y) >> ELSE @ ]

\* dragging: the trail of a pointer that moved distMoved from `from`
DragTrail(w, from, distMoved) ==
    IF distMoved > SPAWN_STEP * PX
    THEN [ TrailLoop(w, from, Pt(w.mouse.x, w.mouse.y),
                     Scale(w.mouse.vx, 10, 100) + Turbulence(w.rnd),
                     Scale(w.mouse.vy, 10, 100) + Turbulence(w.rnd),
                     1, Min(distMoved \div (SPAWN_STEP * PX), TRAIL_CAP))
           EXCEPT !.trail = << Pt(w.mouse.x, w.mouse.y) >> ]
    ELSE w

DragStep(w) ==
    DragTrail(w, w.trail[1], Hypot(w.mouse.x - w.trail[1].x, w.mouse.y - w.trail[1].y))

\* the left button held: drag a trail, or grow the long press
LeftStep(w) ==
    IF ~w.mouse.isDown THEN w
    ELSE IF w.mouse.isDragging THEN DragStep(DragStart(w))
    ELSE IF w.abc # << >>
    THEN [ w EXCEPT !.abc = << [ x |-> w.mouse.x, y |-> w.mouse.y,
                                 radius |-> w.abc[1].radius + 1,
                                 timer |-> w.abc[1].timer + 1 ] >> ]
    ELSE w

MouseStep(w) == LeftStep(RightStep(w))

\* isPinching: some hand's stable gesture is PINCH
IsPinching(hands) == \E k \in 1..Len(hands) : hands[k].gesture = "PINCH"

\* the commit of an ActiveCreation: createBubble at its place and size,
\* every new bubble released with vy = -2 and vx = 0
Commit(w, by) ==
    [ Push(w, Release(createBubble(w.abc[1].x, w.abc[1].y, w.abc[1].radius, 0, 0, FALSE,
                                    w.rnd, w.nid, w.t)), by)
      EXCEPT !.log.commits = Append(@, [ by |-> by, x |-> w.abc[1].x, y |-> w.abc[1].y,
                                         radius |-> w.abc[1].radius ]) ]

\* a slip: the release with no minimum radius
ReleasedAtOnce(w) == Commit(w, "release")

\* auto-release when no hand pinches and the left button is up
Released(w) ==
    IF w.abc[1].radius > PINCH_MIN_RADIUS THEN Commit(w, "release") ELSE Drop(w, "release")

\* a slip: an ActiveCreation too small to commit is kept
AutoReleaseAbove(w) ==
    IF ~IsPinching(w.hands) /\ ~w.mouse.isDown /\ w.abc # << >>
       /\ w.abc[1].radius > PINCH_MIN_RADIUS
    THEN [ Released(w) EXCEPT !.abc = << >> ]
    ELSE w

AutoRelease(w) ==
    IF ~IsPinching(w.hands) /\ ~w.mouse.isDown /\ w.abc # << >>
    THEN [ Released(w) EXCEPT !.abc = << >> ]
    ELSE w

\* a slip: the ambient spawn goes on while an ActiveCreation exists
AmbientSpawnHeld(w) ==
    LET timer == w.timer + 1
    IN  IF timer > BUBBLE_SPAWN_RATE /\ Len(w.bs) < AMBIENT_CAP
        THEN [ Push(w, createBubble(randomRange(50 * PX, (WIDTH - 50) * PX, w.rnd.u),
                                    (HEIGHT + 50) * PX, 0, 0, 0, FALSE, w.rnd, w.nid, w.t),
                    "ambient")
               EXCEPT !.timer = 0 ]
        ELSE [ w EXCEPT !.timer = timer ]

\* spawnTimer++ and the ambient spawn below the canvas
AmbientSpawn(w) ==
    LET timer == w.timer + 1
    IN  IF timer > BUBBLE_SPAWN_RATE /\ Len(w.bs) < AMBIENT_CAP /\ w.abc = << >>
        THEN [ Push(w, createBubble(randomRange(50 * PX, (WIDTH - 50) * PX, w.rnd.u),
                                    (HEIGHT + 50) * PX, 0, 0, 0, FALSE, w.rnd, w.nid, w.t),
                    "ambient")
               EXCEPT !.timer = 0 ]
        ELSE [ w EXCEPT !.timer = timer ]

---------------------------------------------------------------------------
(* update, lines 988-1062: sort and pairwise scan *)

\* bubbles.current.sort((a, b) => a.radius - b.radius): stable, ascending
RECURSIVE Insert(_, _)
Insert(sorted, b) ==
    IF sorted = << >> THEN << b >>
    ELSE IF sorted[Len(sorted)].rsq <= b.rsq THEN Append(sorted, b)
    ELSE Append(Insert(SubSeq(sorted, 1, Len(sorted) - 1), b), sorted[Len(sorted)])

RECURSIVE SortByRadius(_)
SortByRadius(bs) ==
    IF bs = << >> THEN << >>
    ELSE Insert(SortByRadius(SubSeq(bs, 1, Len(bs) - 1)), bs[Len(bs)])

\* a slip: the scan passes over no bubble
Scanning(b) == FALSE

\* b.state === BubbleState.FROZEN || b.state === BubbleState.SHATTERED
Skipped(b) == b.state = "FROZEN" \/ b.state = "SHATTERED"

\* slips of the merge block: the clamp left out, the radius left as it was,
\* the absorbed mass left out
UnclampedRsq(rsq1, rsq2) == rsq1 + rsq2

KeptRsq(rsq1, rsq2) == Min(rsq1, MAX_RADIUS * MAX_RADIUS)

KeptMass(m1, m2) == m1

\* newRadius = Math.sqrt(newArea / Math.PI); b1.radius = Math.min(newRadius, 220):
\* the square of the survivor's radius
MergedRsq(rsq1, rsq2) == Min(rsq1 + rsq2, MAX_RADIUS * MAX_RADIUS)

\* totalMass = b1.mass + b2.mass; b1.mass = totalMass
MergedMass(m1, m2) == m1 + m2

\* the merge test: d < rSum * 0.4
Touching(d, b1, b2) == d * 10 < (Radius(b1.rsq) + Radius(b2.rsq)) * 4

\* the merge block: b1 takes the mass-weighted position and velocity
Merge(b1, b2) ==
    LET totalMass == MergedMass(b1.mass, b2.mass)
        w2 == (b2.mass * 1000) \div (b1.mass + b2.mass)
    IN  [ b1 EXCEPT !.x = lerp(b1.x, b2.x, w2, 1000),
                    !.y = lerp(b1.y, b2.y, w2, 1000),
                    !.vx = lerp(b1.vx, b2.vx, w2, 1000),
                    !.vy = lerp(b1.vy, b2.vy, w2, 1000),
                    !.rsq = MergedRsq(b1.rsq, b2.rsq),
                    !.mass = totalMass ]

\* b1 is updated in place and bubbles.current.splice(j, 1) removes b2
Absorb(bs, i, j, merged) == RemoveAt([bs EXCEPT ![i] = merged], j)

\* the cohesion force of a pair within the stick distance
Cohere(w, i, j, d) ==
    LET b1 == w.bs[i]
        b2 == w.bs[j]
        isTrailPair == b1.isTrail /\ b2.isTrail
        rSum == Radius(b1.rsq) + Radius(b2.rsq)
        stickDist == Scale(rSum, IF isTrailPair THEN 18 ELSE 16, 10)
        u == 1000 - (d * 1000) \div stickDist
        ax == IF isTrailPair THEN Scale(b2.x - b1.x, 2, 1000) ELSE Scale(b2.x - b1.x, 1, 10000)
        ay == IF isTrailPair THEN Scale(b2.y - b1.y, 2, 1000) ELSE Scale(b2.y - b1.y, 1, 10000)
    IN  IF d < stickDist /\ u > 100
        THEN [ w EXCEPT !.bs[i].vx = @ + ax, !.bs[i].vy = @ + ay,
                        !.bs[j].vx = @ - ax, !.bs[j].vy = @ - ay,
                        !.log.cohered = Append(@, << b1.id, b2.id >>) ]
        ELSE w

\* the merge of the pair (i, j), noted in the log; next is the bubble that
\* the splice moves to index j, 0 if there is none
Merged(w, i, j, merged) ==
    [ w EXCEPT !.bs = Absorb(w.bs, i, j, merged),
               !.log.removed = Append(@, [id |-> w.bs[j].id, cause |-> "merge"]),
               !.log.merges = Append(@,
                   [ survivor |-> w.bs[i].id, absorbed |-> w.bs[j].id,
                     rsq1 |-> w.bs[i].rsq, rsq2 |-> w.bs[j].rsq,
                     mass1 |-> w.bs[i].mass, mass2 |-> w.bs[j].mass,
                     rsq |-> merged.rsq, mass |-> merged.mass,
                     before |-> Len(w.bs), after |-> Len(Absorb(w.bs, i, j, merged)),
                     next |-> IF j < Len(w.bs) THEN w.bs[j + 1].id ELSE 0 ]) ]

RECURSIVE PairRow(_, _, _)

\* const b2 = bubbles.current[j]: the pass for the pair (i, j) begins
PairVisit(w, i, j) == [ w EXCEPT !.log.pairs = Append(@, << w.bs[i].id, w.bs[j].id >>) ]

\* a slip: no j-- after the splice, the scan goes on at j + 1
PairedSkipping(w, i, j, d) ==
    IF Touching(d, w.bs[i], w.bs[j])
    THEN PairRow(Merged(w, i, j, Merge(w.bs[i], w.bs[j])), i, j + 1)
    ELSE PairRow(w, i, j + 1)

\* the pair (i, j) after the cohesion: merged, and the scan goes on at the
\* same j, or left alone
Paired(w, i, j, d) ==
    IF Touching(d, w.bs[i], w.bs[j])
    THEN PairRow(Merged(w, i, j, Merge(w.bs[i], w.bs[j])), i, j)
    ELSE PairRow(w, i, j + 1)

PairAt(w, i, j, d) == Paired(Cohere(w, i, j, d), i, j, d)

\* for (j = i + 1; j < bubbles.current.length; j++): the row of b1 =
\* bubbles.current[i] from the pair (i, j) on
PairRow(w, i, j) ==
    IF j > Len(w.bs) THEN w
    ELSE IF Skipped(w.bs[j]) \/ Abs(w.bs[i].x - w.bs[j].x) > FAR_X * PX
    THEN PairRow(PairVisit(w, i, j), i, j + 1)
    ELSE PairAt(PairVisit(w, i, j), i, j, dist(w.bs[i], w.bs[j]))

\* for (i = 0; i < bubbles.current.length; i++): the scan from row i on
RECURSIVE PairScan(_, _)
PairScan(w, i) ==
    IF i > Len(w.bs) THEN w
    ELSE IF Skipped(w.bs[i]) THEN PairScan(w, i + 1)
    ELSE PairScan(PairRow(w, i, i + 1), i + 1)

---------------------------------------------------------------------------
(* update, lines 1064-1144: the loop over the bubbles, last to first *)

\* the first POINT hand whose fingertip touches b, as << hand >>, or << >>
RECURSIVE FirstTouch(_, _, _)
FirstTouch(hands, b, k) ==
    IF k > Len(hands) THEN << >>
    ELSE IF hands[k].gesture = "POINT"
            /\ Hypot(b.x - IndexTip(hands[k]).x, b.y - IndexTip(hands[k]).y)
                 < Radius(b.rsq) + TOUCH_RANGE * PX
    THEN << hands[k] >>
    ELSE FirstTouch(hands, b, k + 1)

HitHand(w, b) ==
    IF w.locked # << >> /\ w.locked[1].id = b.id THEN FirstTouch(w.hands, b, 1) ELSE << >>

\* the chance roll of a slow touch
Roll(chance) ==
    CASE chance = 0 -> "FREEZE"
      [] chance = 1 -> "MELT"
      [] chance = 2 -> "EVAPORATE"
      [] OTHER      -> "POPPING"

\* a slip: the chance roll taken whatever the bubble's state
TouchedInAnyState(w, b, hit) ==
    IF hit = << >> THEN "NONE"
    ELSE IF Hypot(hit[1].velocity.x, hit[1].velocity.y) > SWIPE_SPEED * PX THEN "POPPING"
    ELSE Roll(w.rnd.chance)

Touched(w, b, hit) ==
    IF hit = << >> THEN "NONE"
    ELSE IF Hypot(hit[1].velocity.x, hit[1].velocity.y) > SWIPE_SPEED * PX THEN "POPPING"
    ELSE IF b.state = "FLOATING" THEN Roll(w.rnd.chance)
    ELSE "NONE"

\* what the contact does to b: "POPPING", "MELT", "EVAPORATE" (each removes
\* it), "FREEZE", or "NONE"
Contact(w, b) == Touched(w, b, HitHand(w, b))

\* a slip: the bubble frozen with the vertical speed it had
FreezeMoving(b) == [ b EXCEPT !.state = "FROZEN", !.stateTimer = 0, !.vx = Scale(b.vx, 1, 10) ]

Freeze(b) == [ b EXCEPT !.state = "FROZEN", !.stateTimer = 0, !.vx = Scale(b.vx, 1, 10), !.vy = 0 ]

\* the FROZEN branch up to the boundary test
FrozenMove(b) ==
    LET timer == b.stateTimer + 8
        vx == IF timer > 1000 THEN b.vx ELSE Scale(b.vx, 9, 10)
        vy == IF timer > 1000 THEN b.vy + GRAVITY * 3 ELSE Scale(b.vy, 9, 10)
    IN  [ b EXCEPT !.stateTimer = timer, !.vx = vx, !.vy = vy, !.x = b.x + vx, !.y = b.y + vy ]

\* b.y > height - b.radius
Landed(b) == b.y > HEIGHT * PX - Radius(b.rsq)

\* the floating branch up to the top test: gravity, drag, walls
FloatForces(b) ==
    LET r == Radius(b.rsq)
        vy == Scale(b.vy - (GRAVITY * 6) \div 10, AIR_RESISTANCE, 100)
        vx0 == Scale(b.vx, AIR_RESISTANCE, 100)
        x1 == IF b.x < r THEN r ELSE b.x
        vx1 == IF b.x < r THEN Scale(vx0, -8, 10) ELSE vx0
        x2 == IF x1 > WIDTH * PX - r THEN WIDTH * PX - r ELSE x1
        vx2 == IF x1 > WIDTH * PX - r THEN Scale(vx1, -8, 10) ELSE vx1
    IN  [ b EXCEPT !.vx = vx2, !.vy = vy, !.x = x2 ]

\* a slip: no bubble is taken for floated away
Lingering(b) == FALSE

\* b.y < -b.radius * 2
FloatedAway(b) == b.y < -2 * Radius(b.rsq)

FloatMove(b) == [ b EXCEPT !.x = b.x + b.vx, !.y = b.y + b.vy ]

\* the removal by interaction: particles, splice, onExpandUniverse
Remove(w, i, type, cause) == Expand(Splice(Burst(w, w.bs[i], type), i, cause), w.bs[i])

\* a slip: onExpandUniverse called for the shattered bubble too
FrozenStepExpanding(w, i, moved) ==
    IF Landed(moved)
    THEN Expand(Splice(Burst([w EXCEPT !.bs[i] = moved], moved, "SHATTER"), i, "shatter"), moved)
    ELSE [ w EXCEPT !.bs[i] = moved ]

\* the FROZEN branch: the bubble moved, shattered if it reached the bottom
FrozenStep(w, i, moved) ==
    IF Landed(moved)
    THEN Splice(Burst([w EXCEPT !.bs[i] = moved], moved, "SHATTER"), i, "shatter")
    ELSE [ w EXCEPT !.bs[i] = moved ]

\* the floating branch: removed silently above the top, moved otherwise
FloatStep(w, i, pushed) ==
    IF FloatedAway(pushed)
    THEN Splice([w EXCEPT !.bs[i] = pushed], i, "top")
    ELSE [ w EXCEPT !.bs[i] = FloatMove(pushed) ]

\* the walls bubble b is put back at: if (b.x < b.radius), and then
\* if (b.x > width - b.radius)
Walls(b) ==
    (IF b.x < Radius(b.rsq) THEN << [id |-> b.id, wall |-> "left"] >> ELSE << >>)
    \o (IF Max(b.x, Radius(b.rsq)) > WIDTH * PX - Radius(b.rsq)
        THEN << [id |-> b.id, wall |-> "right"] >> ELSE << >>)

Clamped(w, i) == [ w EXCEPT !.log.clamped = @ \o Walls(w.bs[i]) ]

\* the kinematics of the bubble at index i, after the contact
Kinematics(w, i) ==
    IF w.bs[i].state = "FROZEN"
    THEN FrozenStep(w, i, FrozenMove(w.bs[i]))
    ELSE FloatStep(Clamped(w, i), i, FloatForces(w.bs[i]))

Frozen(w, i) ==
    [ w EXCEPT !.bs[i] = Freeze(@), !.log.frozen = Append(@, w.bs[i].id) ]

\* the body of the loop for the bubble at index i whose contact is c
BubbleStep(w, i, c) ==
    CASE c = "POPPING"   -> Remove(w, i, "POPPING", "pop")
      [] c = "MELT"      -> Remove(w, i, "MELT", "melt")
      [] c = "EVAPORATE" -> Remove(w, i, "EVAPORATE", "evaporate")
      [] c = "FREEZE"    -> Kinematics(Frozen(w, i), i)
      [] OTHER           -> Kinematics(w, i)

\* const b = bubbles.current[i]: the pass for the bubble at index i begins
Visit(w, i) == [ w EXCEPT !.log.visited = Append(@, w.bs[i].id) ]

\* if (hitHand): the contact of the hand `hit` with the bubble at index i
Met(w, i, hit) ==
    IF hit = << >> THEN w
    ELSE [ w EXCEPT !.log.touched = Append(@,
               [ id |-> w.bs[i].id, state |-> w.bs[i].state,
                 fast |-> Hypot(hit[1].velocity.x, hit[1].velocity.y) > SWIPE_SPEED * PX,
                 chance |-> w.rnd.chance ]) ]

\* for (i = length - 1; i >= 0; i--); a splice at i leaves the indices
\* below i in place, so that i never passes the end of the store
RECURSIVE BubbleLoop(_, _)
BubbleLoop(w, i) ==
    IF i = 0 \/ i > Len(w.bs) THEN w
    ELSE BubbleLoop(BubbleStep(Met(Visit(w, i), i, HitHand(w, w.bs[i])), i,
                               Contact(w, w.bs[i])), i - 1)

---------------------------------------------------------------------------
(* update, lines 1146-1193: the loop over the particles, last to first *)

\* the pass for the particle at index i, p being the particle after its
\* step: if (p.life <= 0) { particles.current.splice(i, 1); continue; }
ParticleAt(w, i, p) ==
    [ w EXCEPT !.ps = IF Alive(p) THEN [@ EXCEPT ![i] = p] ELSE RemoveAt(@, i),
               !.log.decayed = Append(@, [at |-> i, from |-> w.ps[i].life, to |-> p.life]) ]

\* for (i = length - 1; i >= 0; i--), i never past the end of the list
RECURSIVE ParticleLoop(_, _)
ParticleLoop(w, i) ==
    IF i = 0 \/ i > Len(w.ps) THEN w
    ELSE ParticleLoop(ParticleAt(w, i, StepParticle(w.ps[i])), i - 1)

---------------------------------------------------------------------------
(* update, lines 689-781: detection, smoothing and the stable gesture *)

\* a slip: the frame time not compared, a detection in every tick
DetectsEachTick(ready, vt, last) == ready

\* the gate: the landmarker is loaded, the video is ready and its frame
\* time differs from the one of the last detection
Detects(ready, vt, last) == ready /\ vt # last

\* The map callback reads landmark 9 of the sample, landmark idx of the
\* slot's record for every landmark idx of the sample, and landmarks 4 to 20
\* of the result: it throws a TypeError when one of them is missing
Throws(raw, prev) ==
    Len(raw) < LANDMARKS \/ (prev # << >> /\ Len(raw) > Len(prev[1].landmarks))

\* the first sample on which the callback throws, or 0
FirstThrow(raws, prev) ==
    IF \E i \in 1..Len(raws) : Throws(raws[i], prev[i])
    THEN CHOOSE i \in 1..Len(raws) :
             Throws(raws[i], prev[i]) /\ \A j \in 1..(i - 1) : ~Throws(raws[j], prev[j])
    ELSE 0

\* the callback has run for the first `done` samples: their slots hold the
\* new records; handResults.current is assigned when the map returns
Mapped(w, raws, done, thrown) ==
    [ w EXCEPT !.hands = IF thrown THEN @ ELSE [i \in 1..done |-> ProcessHand(raws[i], w.prev[i]).hand],
               !.prev = [i \in DOMAIN w.prev |->
                            IF i <= done THEN << ProcessHand(raws[i], w.prev[i]).prev >>
                            ELSE w.prev[i]],
               !.log.thrown = thrown,
               !.log.samples = [i \in 1..Len(raws) |-> Len(raws[i])] ]

\* handResults.current = detections.landmarks.map(...), with the side map
Detect(w, raws) ==
    IF FirstThrow(raws, w.prev) = 0 THEN Mapped(w, raws, Len(raws), FALSE)
    ELSE Mapped(w, raws, FirstThrow(raws, w.prev) - 1, TRUE)

---------------------------------------------------------------------------
(* The handlers as actions *)

NoHist == [ dead |-> {}, everFrozen |-> {}, bursts |-> << >>, expanded |-> << >> ]

Ids(seq) == {seq[k].id : k \in 1..Len(seq)}

\* the history after a handler whose log is `log`
Record(h, log) ==
    [ dead |-> h.dead \cup Ids(log.removed),
      everFrozen |-> h.everFrozen \cup {log.frozen[k] : k \in 1..Len(log.frozen)},
      bursts |-> h.bursts \o log.bursts,
      expanded |-> h.expanded \o log.expanded ]

\* the refs as a handler finds them
Work(rnd, t) ==
    [ bs |-> bubbles, ps |-> particles, prev |-> prevHandData, hands |-> handResults,
      abc |-> abc, locked |-> lockedTarget, closest |-> 9999 * PX, trail |-> mouseTrail,
      timer |-> spawnTimer, nid |-> nextId, mouse |-> mouse, rnd |-> rnd, t |-> t,
      log |-> EmptyLog ]

\* what the handler is called with, noted in the log
Noted(w, kind, detected) ==
    [ w EXCEPT !.log = [ kind |-> kind, detected |-> detected, t |-> w.t,
                         before |-> bubbles ] @@ @ ]

\* the detection, when the gate is open
Detection(w, in, detects) == Noted(IF detects THEN Detect(w, in.hands) ELSE w, "tick", detects)

\* bubbles.current.sort(...) and the scan of the pairs
Scan(w) == PairScan(w, 1)

Sorted(w) == [ w EXCEPT !.bs = SortByRadius(@) ]

\* the two loops, each from the last index the collection has when it starts
Particles(w) ==
    ParticleLoop([w EXCEPT !.log.entered = Append(@, Len(w.ps))], Len(w.ps))

Bubbles(w) ==
    BubbleLoop([w EXCEPT !.log.entered = Append(@, [k \in 1..Len(w.bs) |-> w.bs[k].id])],
               Len(w.bs))

Loops(w) == Particles(Bubbles(w))

\* a slip: the LockedTarget of the last tick not cleared
SimulateLocked(w) ==
    Loops(Scan(Sorted(AmbientSpawn(AutoRelease(MouseStep(HandLoop(w, 1)))))))

\* update(time) from the reset of the LockedTarget to its end
Simulate(w) ==
    Loops(Scan(Sorted(AmbientSpawn(AutoRelease(MouseStep(
        HandLoop([ w EXCEPT !.locked = << >> ], 1)))))))

\* update(time), run to its end, or to the TypeError of the detection
Update(in) ==
    With(Detection(Work(in.rnd, now + in.dt), in,
                   Detects(in.ready, videoTime + (IF in.frame THEN 1 ELSE 0), lastVideoTime)),
         LAMBDA w : IF w.log.thrown THEN w ELSE Simulate(w))

\* the refs as update leaves them
Updated(w) ==
    /\ bubbles' = w.bs
    /\ particles' = w.ps
    /\ handResults' = w.hands
    /\ prevHandData' = w.prev
    /\ abc' = w.abc
    /\ lockedTarget' = w.locked
    /\ mouseTrail' = w.trail
    /\ spawnTimer' = w.timer
    /\ nextId' = w.nid
    /\ obs' = w.log
    /\ hist' = Record(hist, w.log)
    /\ lastVideoTime' = IF w.log.detected THEN videoTime' ELSE lastVideoTime

\* one call of update by requestAnimationFrame
Frame(in) ==
    /\ Len(in.hands) <= MaxHands
    /\ videoTime' = videoTime + (IF in.frame THEN 1 ELSE 0)
    /\ Updated(Update(in))
    /\ now' = now + in.dt
    /\ UNCHANGED mouse

\* a frame of a run of at most `frames` frames; update re-arms itself with
\* requestAnimationFrame in its last line, so that no frame follows one
\* that threw
Within(frames, in) ==
    /\ ticks < frames
    /\ Frame(in)
    /\ ticks' = IF obs'.thrown THEN frames ELSE ticks + 1

Tick(in) == Within(MaxTicks, in)

\* the click test of handleMouseDown: the last bubble under the pointer
RECURSIVE Clicked(_, _, _, _)
Clicked(bs, x, y, i) ==
    IF i = 0 THEN 0
    ELSE IF Hypot(bs[i].x - x, bs[i].y - y) < Radius(bs[i].rsq) THEN i
    ELSE Clicked(bs, x, y, i - 1)

\* the click of the left button: pop the bubble under the pointer, or
\* start a long press
Click(w, i) == IF i # 0 THEN Remove(w, i, "POPPING", "click") ELSE w

LeftDown(x, y, i, popped) ==
    /\ mouse' = [mouse EXCEPT !.isDown = TRUE, !.startX = x, !.startY = y,
                              !.isDragging = FALSE, !.x = x, !.y = y]
    /\ bubbles' = popped.bs
    /\ particles' = popped.ps
    /\ abc' = IF i = 0
              THEN << [x |-> x, y |-> y, radius |-> PRESS_START_RADIUS, timer |-> 0] >>
              ELSE << >>
    /\ obs' = [kind |-> "down", before |-> bubbles] @@ popped.log
    /\ hist' = Record(hist, popped.log)

RightDown(x, y) ==
    /\ mouse' = [mouse EXCEPT !.isRightDown = TRUE, !.x = x, !.y = y]
    /\ obs' = [kind |-> "down", before |-> bubbles] @@ EmptyLog
    /\ UNCHANGED << bubbles, particles, abc, hist >>

Pressed(x, y, rnd, i) == LeftDown(x, y, i, Click(Work(rnd, now), i))

\* handleMouseDown(e) at (px, py), in pixels
MouseDown(button, px, py, rnd) ==
    /\ IF button = 2 THEN RightDown(px * PX, py * PX)
       ELSE Pressed(px * PX, py * PX, rnd, Clicked(bubbles, px * PX, py * PX, Len(bubbles)))
    /\ UNCHANGED << handResults, prevHandData, lockedTarget, mouseTrail, spawnTimer,
                    lastVideoTime, videoTime, now, nextId, ticks >>

\* handleMouseMove(e)
MouseMove(px, py) ==
    LET x == px * PX
        y == py * PX
    IN  /\ mouse' = [mouse EXCEPT !.vx = x - mouse.x, !.vy = y - mouse.y, !.x = x, !.y = y,
                                  !.isDragging = @ \/ (mouse.isDown /\
                                      Hypot(x - mouse.startX, y - mouse.startY) > DRAG_THRESHOLD * PX)]
        /\ obs' = [kind |-> "move", before |-> bubbles] @@ EmptyLog
        /\ UNCHANGED << bubbles, particles, handResults, prevHandData, abc, lockedTarget,
                        mouseTrail, spawnTimer, lastVideoTime, videoTime, now, nextId, ticks, hist >>

\* a slip: the release commits a press that became a drag
MouseUpWorkDragging(w) ==
    IF abc # << >> /\ abc[1].radius > PRESS_MIN_RADIUS
    THEN Commit(w, "up")
    ELSE IF abc # << >> THEN Drop(w, "up") ELSE w

\* the release of handleMouseUp: a long press that was not a drag commits
MouseUpWork(w) ==
    IF abc # << >> /\ ~mouse.isDragging /\ abc[1].radius > PRESS_MIN_RADIUS
    THEN Commit(w, "up")
    ELSE IF abc # << >> THEN Drop(w, "up") ELSE w

MouseUpDone(w, leave) ==
    /\ mouse' = [mouse EXCEPT !.isDown = FALSE, !.isRightDown = FALSE, !.isDragging = FALSE,
                              !.x = IF leave THEN -1000 * PX ELSE @,
                              !.y = IF leave THEN -1000 * PX ELSE @]
    /\ bubbles' = w.bs
    /\ nextId' = w.nid
    /\ abc' = << >>
    /\ mouseTrail' = << >>
    /\ obs' = [kind |-> IF leave THEN "leave" ELSE "up", before |-> bubbles] @@ w.log
    /\ hist' = Record(hist, w.log)
    /\ UNCHANGED << particles, handResults, prevHandData, lockedTarget, spawnTimer,
                    lastVideoTime, videoTime, now, ticks >>

\* handleMouseUp(), and handleMouseLeave() which calls it and parks the pointer
MouseUpTo(rnd, leave) == MouseUpDone(MouseUpWork(Work(rnd, now)), leave)

MouseUp(rnd) == MouseUpTo(rnd, FALSE)

MouseLeave(rnd) == MouseUpTo(rnd, TRUE)

Init ==
    /\ bubbles = << >>
    /\ particles = << >>
    /\ handResults = << >>
    /\ prevHandData = [i \in 1..MaxHands |-> << >>]
    /\ abc = << >>
    /\ lockedTarget = << >>
    /\ mouse = [ x |-> -1000 * PX, y |-> -1000 * PX, vx |-> 0, vy |-> 0, isDown |-> FALSE,
                 isRightDown |-> FALSE, startX |-> 0, startY |-> 0, isDragging |-> FALSE ]
    /\ mouseTrail = << >>
    /\ spawnTimer = 0
    /\ lastVideoTime = -1
    /\ videoTime = 0
    /\ now = 0
    /\ nextId = 0
    /\ ticks = 0
    /\ obs = [kind |-> "init"] @@ EmptyLog
    /\ hist = NoHist


---------------------------------------------------------------------------
(* The program driven by hands and mouse from its initial state *)

\* draws of Math.random() that a handler can see
Rnd(theme, chance, u) ==
    [ theme |-> theme, chance |-> chance, u |-> u, large |-> FALSE, cluster |-> FALSE,
      count |-> 0, angle |-> 1 ]

Rnds == { Rnd("NEBULA", 0, 90), Rnd("FOREST", 1, 50), Rnd("NEBULA", 2, 50), Rnd("FOREST", 3, 90) }

\* camera samples: an open hand that sweeps from the bottom edge up and to
\* the right, and a second, pointing hand at the start or the end of the sweep
OpenA == Pose("OPEN_HAND", 5000, 9667)
OpenB == Pose("OPEN_HAND", 2500, 8000)
PointX == Pose("POINT", 4200, 5600)
PointY == Pose("POINT", 3450, 5600)

HandSets == { << >>, << OpenA >>, << OpenB, PointX >>, << OpenB, PointY >> }

Inputs ==
    { [dt |-> FrameMs, ready |-> TRUE, frame |-> TRUE, hands |-> hs, rnd |-> r] :
        hs \in HandSets, r \in Rnds }

Points == { Pt(220, 285) }

\* a session is driven by the camera or by the mouse: no hand is shown once
\* the mouse has been used, and the mouse is not used once a hand was seen
MouseUnused == mouse.x = -1000 * PX /\ mouse.startX = 0 /\ ~mouse.isDown /\ ~mouse.isRightDown

NoHandSeen == \A i \in DOMAIN prevHandData : prevHandData[i] = << >>

Next ==
    \/ \E in \in Inputs : (in.hands = << >> \/ MouseUnused) /\ Tick(in)
    \/ \E b \in {0}, p \in Points, r \in Rnds : NoHandSeen /\ MouseDown(b, p.x, p.y, r)
    \/ \E p \in Points : NoHandSeen /\ MouseMove(p.x, p.y)
    \/ \E r \in Rnds : NoHandSeen /\ MouseUp(r)
    \/ \E r \in Rnds : NoHandSeen /\ MouseLeave(r)

Spec == Init /\ [][Next]_vars

---------------------------------------------------------------------------
(* The merge block: a long press held over a floating bubble *)

\* radii a long press reaches: the press grows by one each tick with no cap
MergeRadii == {30, 160, 220, 230}

\* how far from the floating bubble the pointer is held, in pixels
MergeGaps == {5, 150}

\* where the floating bubble is: in the middle of the canvas, or one pixel
\* short of the height -2 * radius at which it is taken for floated away
MergeHeights(r) == {150 * PX, (1 - 2 * r) * PX}

\* the bubble an earlier long press of radius r left, floating at (200, y)
Floating(r, y) ==
    Release(createBubble(200 * PX, y, r, 0, 0, FALSE, Rnd("NEBULA", 2, 50), 0, 0))

\* the refs when the store holds bs and the particle list ps at time t,
\* nid bubbles were made on the way, of which h tells the past, and a long
\* press is held (pressed is << the ActiveCreation >>) or the mouse was
\* never used (pressed is << >>)
SeededAt(bs, ps, pressed, t, h, nid, timer) ==
    /\ bubbles = bs
    /\ particles = ps
    /\ handResults = << >>
    /\ prevHandData = [i \in 1..MaxHands |-> << >>]
    /\ abc = pressed
    /\ lockedTarget = << >>
    /\ mouse = IF pressed = << >>
               THEN [ x |-> -1000 * PX, y |-> -1000 * PX, vx |-> 0, vy |-> 0, isDown |-> FALSE,
                      isRightDown |-> FALSE, startX |-> 0, startY |-> 0, isDragging |-> FALSE ]
               ELSE [ x |-> pressed[1].x, y |-> pressed[1].y, vx |-> 0, vy |-> 0, isDown |-> TRUE,
                      isRightDown |-> FALSE, startX |-> pressed[1].x, startY |-> pressed[1].y,
                      isDragging |-> FALSE ]
    /\ mouseTrail = << >>
    /\ spawnTimer = timer
    /\ lastVideoTime = -1
    /\ videoTime = 0
    /\ now = t
    /\ nextId = nid
    /\ ticks = 0
    /\ obs = [kind |-> "init"] @@ EmptyLog
    /\ hist = h

\* the same with the ambient spawn timer at zero
SeededWith(bs, ps, pressed, t, h, nid) == SeededAt(bs, ps, pressed, t, h, nid, 0)

\* the same with no particle left and every bubble made still in the store,
\* those with an id in `frozen` frozen on the way
Seeded(bs, pressed, t, frozen) ==
    SeededWith(bs, << >>, pressed, t, [NoHist EXCEPT !.everFrozen = frozen], Len(bs))

\* the left button is down at (200 + gap, 150) since the press began and the
\* press has grown from PRESS_START_RADIUS to r2
Held(r1, y, r2, gap) ==
    Seeded(Floating(r1, y),
           << [ x |-> (200 + gap) * PX, y |-> 150 * PX, radius |-> r2,
                timer |-> r2 - PRESS_START_RADIUS ] >>,
           0, {})

InitMerge ==
    \E r1 \in MergeRadii, r2 \in MergeRadii, gap \in MergeGaps :
        \E y \in MergeHeights(r1) : Held(r1, y, r2, gap)

NextMerge ==
    \/ \E in \in Inputs : in.hands = << >> /\ Tick(in)
    \/ \E r \in Rnds : MouseUp(r)

SpecMerge == InitMerge /\ [][NextMerge]_vars

---------------------------------------------------------------------------
(* Every handler, from the initial state, from a long press held over a    *)
(* floating bubble or while a bubble floats away, or from a frozen bubble  *)
(* about to fall                                                           *)

\* a trail bubble frozen 125 ticks ago, a fifth of a pixel above the height
\* at which it shatters, its stateTimer about to pass 1.0
Falling ==
    Seeded(<< [ Freeze(createBubble(240 * PX, (HEIGHT - 20) * PX - 20, 20, 0, 0, TRUE,
                                    Rnd("NEBULA", 2, 50), 0, 0)[1])
                EXCEPT !.stateTimer = 1000 ] >>,
           << >>, GRACE_MS + 125 * FrameMs, {1})

InitLife ==
    \/ Init
    \/ Held(160, 150 * PX, 160, 5)
    \/ Held(30, (1 - 2 * 30) * PX, 30, 150)
    \/ Falling

SpecLife == InitLife /\ [][Next]_vars

---------------------------------------------------------------------------
(* Properties of the merge block, over the merges of the last handler *)

MaxRsq == MAX_RADIUS * MAX_RADIUS

MergesOf(log) == {log.merges[k] : k \in 1..Len(log.merges)}

\* C1, as stated: every merge leaves the survivor with the sum of the two
\* circle areas, radius_new^2 = r1^2 + r2^2, and the sum of the two masses.
C1_AreaConserved ==
    \A m \in MergesOf(obs) : m.rsq = m.rsq1 + m.rsq2 /\ m.mass = m.mass1 + m.mass2

\* C1, amended: every merge leaves the survivor with
\* radius_new^2 = min(r1^2 + r2^2, 220^2), the area sum unless the radius is
\* clamped to the maximum, and with the sum of the two masses.
C1_AreaConservedUpToClamp ==
    \A m \in MergesOf(obs) :
        /\ m.rsq = IF m.rsq1 + m.rsq2 <= MaxRsq THEN m.rsq1 + m.rsq2 ELSE MaxRsq
        /\ m.mass = m.mass1 + m.mass2

\* a merge of two bubbles whose areas add up to more than the largest circle's
C1_ClampedMerge == \E m \in MergesOf(obs) : m.rsq1 + m.rsq2 > MaxRsq

\* C2, as stated: in every reachable state every bubble of the store has
\* mass = radius^2, also after a merge whose radius is clamped.
C2_MassIsRadiusSquared == \A k \in 1..Len(bubbles) : bubbles[k].mass = bubbles[k].rsq

\* C3: after any merge the survivor's radius is greater than 0 and at most
\* 220, whatever the two radii were, a press grown beyond 220 included.
C3_RadiusWithinMaximum == \A m \in MergesOf(obs) : 0 < m.rsq /\ m.rsq <= MaxRsq

\* a merge that absorbs a bubble grown beyond the maximum radius
C3_OversizedAbsorbed == \E m \in MergesOf(obs) : m.rsq2 > MaxRsq /\ m.rsq = MaxRsq

\* C4, as stated: every merge takes exactly one bubble out of the store and
\* leaves the survivor with a radius strictly greater than it had before.
C4_OneRemovedRadiusGrows ==
    \A m \in MergesOf(obs) : m.after = m.before - 1 /\ m.rsq > m.rsq1

\* C4, amended: every merge takes exactly one bubble out of the store; the
\* survivor's radius is strictly greater than before when it was below 220
\* before the merge, and is exactly 220 when it was 220 or more.
C4_OneRemovedRadiusGrowsBelowMaximum ==
    \A m \in MergesOf(obs) :
        /\ m.after = m.before - 1
        /\ m.rsq1 < MaxRsq => m.rsq > m.rsq1
        /\ m.rsq1 >= MaxRsq => m.rsq = MaxRsq

\* a merge whose survivor was at the maximum radius or beyond before it
C4_SurvivorAtMaximum ==
    \E m \in MergesOf(obs) : m.rsq1 >= MaxRsq /\ Len(bubbles) = Len(obs.before) - 1

---------------------------------------------------------------------------
(* Properties of the life of a bubble *)

Elems(seq) == {seq[k] : k \in 1..Len(seq)}

\* how many entries of a log sequence are about the bubble `id`
Entries(seq, id) == Cardinality({k \in 1..Len(seq) : seq[k].id = id})

\* C5: every bubble enters the store FLOATING with stateTimer 0; the only
\* state change of a stored bubble is FLOATING -> FROZEN; no stored bubble
\* is SHATTERED after a handler; a bubble that leaves the store was spliced
\* by that handler (pop, melt, evaporate, shatter, top, merge or click) and
\* a spliced bubble is never in the store again.
C5_Lifecycle ==
    [][ /\ \A b \in Elems(bubbles') :
            /\ b.state \in {"FLOATING", "FROZEN"}
            /\ b.id \notin Ids(bubbles) => b.state = "FLOATING" /\ b.stateTimer = 0
            /\ b.id \notin hist'.dead
            /\ \A a \in Elems(bubbles) :
                   a.id = b.id /\ a.state # b.state => a.state = "FLOATING" /\ b.state = "FROZEN"
        /\ \A a \in Elems(bubbles) :
               a.id \notin Ids(bubbles') =>
                   \E r \in Elems(obs'.removed) :
                       r.id = a.id /\ r.cause \in {"pop", "melt", "evaporate", "shatter",
                                                   "top", "merge", "click"}
        /\ \A r \in Elems(obs'.removed) : r.id \notin Ids(bubbles')
      ]_vars

\* a handler has left a FROZEN bubble in the store and has spliced another
C5_FrozenStoredAfterRemovals ==
    /\ \E b \in Elems(bubbles) : b.state = "FROZEN"
    /\ obs.removed # << >>

\* C6: a FROZEN bubble that is beyond height - radius after its move is
\* spliced in that tick with exactly one SHATTER burst, so none stays in the
\* store; a bubble that was ever FROZEN has no MELT and no EVAPORATE burst;
\* a bubble with a SHATTER burst has no other burst in its whole life.
C6_FrozenShatters ==
    /\ \A b \in Elems(bubbles) : b.state = "FROZEN" => ~Landed(b)
    /\ \A r \in Elems(obs.removed) :
           r.cause = "shatter" =>
               /\ r.id \in hist.everFrozen
               /\ Entries(obs.bursts, r.id) = 1
               /\ \E u \in Elems(obs.bursts) : u.id = r.id /\ u.type = "SHATTER"
    /\ \A u \in Elems(hist.bursts) :
           /\ u.id \in hist.everFrozen => u.type \notin {"MELT", "EVAPORATE"}
           /\ u.type = "SHATTER" => Entries(hist.bursts, u.id) = 1 /\ u.id \in hist.dead

\* a bubble frozen in this tick shatters at once, after a bubble frozen long
\* before has fallen and shattered
C6_FallenAndFrozenShatter ==
    /\ \E r \in Elems(obs.removed) : r.cause = "shatter" /\ r.id \in Elems(obs.frozen)
    /\ \E u \in Elems(hist.bursts) : u.type = "SHATTER" /\ u.id \notin Elems(obs.frozen)

---------------------------------------------------------------------------
(* Properties of the POINT contact, over the last tick: obs.before is the *)
(* store the tick found, obs.t its Date.now(), handResults its hands      *)

Old(b) == ~(obs.t - b.creationTime < GRACE_MS)

\* b was in the store before the tick and was at least 1.5 s old in it
OldBefore(id) == \E b \in Elems(obs.before) : b.id = id /\ Old(b)

\* b took no part in a merge of the tick: the contact found it where the
\* tick found it
Unmerged(b) == \A m \in MergesOf(obs) : m.survivor # b.id /\ m.absorbed # b.id

\* some POINT hand faster than the swipe threshold has its fingertip
\* within the touch radius of b
Swiped(b) ==
    \E k \in 1..Len(handResults) :
        /\ handResults[k].gesture = "POINT"
        /\ Hypot(b.x - IndexTip(handResults[k]).x, b.y - IndexTip(handResults[k]).y)
             < Radius(b.rsq) + TOUCH_RANGE * PX
        /\ Hypot(handResults[k].velocity.x, handResults[k].velocity.y) > SWIPE_SPEED * PX

\* the first POINT hand whose fingertip is within the touch radius of b
\* is faster than the swipe threshold
SwipedFirst(b) ==
    /\ FirstTouch(handResults, b, 1) # << >>
    /\ Hypot(FirstTouch(handResults, b, 1)[1].velocity.x,
             FirstTouch(handResults, b, 1)[1].velocity.y) > SWIPE_SPEED * PX

\* a bubble younger than 1.5 s is not the LockedTarget and is not removed
\* or frozen by a contact
YoungUntouched ==
    /\ lockedTarget # << >> => OldBefore(lockedTarget[1].id)
    /\ \A r \in Elems(obs.removed) :
           r.cause \in {"pop", "melt", "evaporate"} => OldBefore(r.id)
    /\ \A id \in Elems(obs.frozen) : OldBefore(id)

\* C7, as stated: a bubble younger than 1.5 s is never the LockedTarget and
\* never removed or frozen by a POINT contact; a bubble at least 1.5 s old
\* with a POINT fingertip within its touch radius and the hand faster than
\* the swipe threshold is removed in that tick.
C7_GraceThenSwipePops ==
    obs.kind = "tick" =>
        /\ YoungUntouched
        /\ \A b \in Elems(obs.before) :
               Old(b) /\ Unmerged(b) /\ Swiped(b) => b.id \notin Ids(bubbles)

\* C7, amended: a bubble younger than 1.5 s is never the LockedTarget and
\* never removed or frozen by a POINT contact; a bubble at least 1.5 s old
\* that is the tick's LockedTarget is removed in that tick when the first
\* POINT hand with its fingertip within the touch radius is faster than the
\* swipe threshold.
C7_GraceThenSwipePopsLocked ==
    obs.kind = "tick" =>
        /\ YoungUntouched
        /\ \A b \in Elems(obs.before) :
               /\ Old(b) /\ Unmerged(b) /\ SwipedFirst(b)
               /\ lockedTarget # << >> /\ lockedTarget[1].id = b.id
               => /\ b.id \notin Ids(bubbles)
                  /\ \E r \in Elems(obs.removed) : r.id = b.id /\ r.cause = "pop"

\* a swipe pops the locked bubble while a bubble created in the tick is
\* within the touch radius of the fingertip and stays
C7_SwipePopsBesideYoung ==
    /\ obs.kind = "tick"
    /\ \E r \in Elems(obs.removed) : r.cause = "pop" /\ lockedTarget # << >>
                                     /\ lockedTarget[1].id = r.id
    /\ \E b \in Elems(bubbles) : Swiped(b) /\ b.id \notin Ids(obs.before)

---------------------------------------------------------------------------
(* Properties of the calls of onExpandUniverse, over the last handler *)

ExpandCauses == {"pop", "melt", "evaporate", "click"}

\* C8: onExpandUniverse is called exactly once, with the bubble's theme, for
\* every bubble removed by pop, melt or evaporate (a click pop included), in
\* the handler that removes it; it is not called for a bubble removed by
\* shatter, top or merge, and not called without a removal.
C8_ExpandOncePerPop ==
    obs.kind # "init" =>
        /\ \A r \in Elems(obs.removed) :
               IF r.cause \in ExpandCauses
               THEN /\ Entries(obs.expanded, r.id) = 1
                    /\ \E b \in Elems(obs.before), x \in Elems(obs.expanded) :
                           b.id = r.id /\ x.id = r.id /\ x.theme = b.theme
               ELSE Entries(obs.expanded, r.id) = 0
        /\ \A x \in Elems(obs.expanded) :
               \E r \in Elems(obs.removed) : r.id = x.id /\ r.cause \in ExpandCauses
        /\ \A r \in Elems(obs.removed) : Entries(obs.removed, r.id) = 1

\* a tick that removes one bubble by a contact and another by a merge or a
\* shatter
C8_PopBesideSilentRemoval ==
    /\ obs.expanded # << >>
    /\ \E r \in Elems(obs.removed) : r.cause \in {"merge", "shatter", "top"}

---------------------------------------------------------------------------
(* The majority vote: one hand that has been tracked for some frames *)

\* the raw gestures of the frames so far, oldest first: the slot's window
Windows ==
    UNION { [1..n -> {"FIST", "PINCH", "OPEN_HAND"}] : n \in 1..GESTURE_HISTORY_SIZE }

\* where the hand was seen last, and where it is seen next: in place, or
\* 180 px to the right
GestureAnchors == { Pt(3000, 5000), Pt(7500, 5000) }

\* the hand of the last frame: its landmarks are those of the window's last
\* raw gesture and its stable gesture is the vote over the window
LastHand(h) ==
    [ landmarks |-> Mirror(Pose(h[Len(h)], 7500, 5000)),
      center |-> getP(Mirror(Pose(h[Len(h)], 7500, 5000)), MIDDLE_MCP),
      velocity |-> Pt(0, 0),
      gesture |-> StableGesture(h, h[Len(h)]) ]

\* the last frame of a bounded run: the slot's record holds the window h,
\* and a pinch has begun if the stable gesture is PINCH
InitGesture ==
    \E h \in Windows :
        /\ bubbles = << >>
        /\ particles = << >>
        /\ handResults = << LastHand(h) >>
        /\ prevHandData = [i \in 1..MaxHands |->
               IF i = 1
               THEN << [ landmarks |-> LastHand(h).landmarks, center |-> LastHand(h).center,
                         velocity |-> Pt(0, 0), gestureHistory |-> h,
                         lastTrailPos |-> LastHand(h).center ] >>
               ELSE << >>]
        /\ abc = IF LastHand(h).gesture = "PINCH"
                 THEN << [ x |-> IndexTip(LastHand(h)).x, y |-> IndexTip(LastHand(h)).y,
                           radius |-> PINCH_START_RADIUS, timer |-> 0 ] >>
                 ELSE << >>
        /\ lockedTarget = << >>
        /\ mouse = [ x |-> -1000 * PX, y |-> -1000 * PX, vx |-> 0, vy |-> 0, isDown |-> FALSE,
                     isRightDown |-> FALSE, startX |-> 0, startY |-> 0, isDragging |-> FALSE ]
        /\ mouseTrail = << >>
        /\ spawnTimer = MaxTicks - 1
        /\ lastVideoTime = MaxTicks - 1
        /\ videoTime = MaxTicks - 1
        /\ now = (MaxTicks - 1) * FrameMs
        /\ nextId = 0
        /\ ticks = MaxTicks - 1
        /\ obs = [kind |-> "init"] @@ EmptyLog
        /\ hist = NoHist

NextGesture ==
    \E sh \in {"FIST", "PINCH", "OPEN_HAND"}, at \in GestureAnchors, r \in {Rnd("NEBULA", 2, 50)} :
        Tick([dt |-> FrameMs, ready |-> TRUE, frame |-> TRUE,
              hands |-> << Pose(sh, at.x, at.y) >>, rnd |-> r])

SpecGesture == InitGesture /\ [][NextGesture]_vars

---------------------------------------------------------------------------
(* Properties of the stable gesture, over a frame of a tracked hand: the  *)
(* window before and after the push, the stable gesture before and after  *)

Times(h, g) == Cardinality({k \in 1..Len(h) : h[k] = g})

\* the values with the largest count in the window
Modes(h) == {g \in Elems(h) : \A o \in Elems(h) : Times(h, g) >= Times(h, o)}

\* the value of S that appears first in the window
FirstOf(h, S) == h[CHOOSE k \in 1..Len(h) : h[k] \in S /\ \A j \in 1..(k - 1) : h[j] \notin S]

WindowOf(prev) == prev[1][1].gestureHistory

\* C9, as stated: when the window holds only A, one raw classification
\* B # A leaves the stable gesture at A; and the stable gesture differs from
\* the one of the tick before only if the most frequent values of the window
\* have changed.
C9_StableUntilMajorityChanges ==
    [][ handResults # << >> /\ handResults' # << >> =>
          /\ \A A \in Gestures :
                 Elems(WindowOf(prevHandData)) = {A} => handResults'[1].gesture = A
          /\ handResults'[1].gesture # handResults[1].gesture =>
                 Modes(WindowOf(prevHandData')) # Modes(WindowOf(prevHandData))
      ]_vars

\* C10, as stated: the stable gesture has the largest count in the window;
\* among several values with the largest count it is the stable gesture of
\* the tick before if that is one of them, otherwise the one that appears
\* first in the window.
C10_ModeKeepingPrevious ==
    [][ handResults # << >> /\ handResults' # << >> =>
          /\ handResults'[1].gesture \in Modes(WindowOf(prevHandData'))
          /\ handResults'[1].gesture =
                 IF handResults[1].gesture \in Modes(WindowOf(prevHandData'))
                 THEN handResults[1].gesture
                 ELSE FirstOf(WindowOf(prevHandData'), Modes(WindowOf(prevHandData')))
      ]_vars

---------------------------------------------------------------------------
(* The camera: one hand, sample by sample, from the initial state *)

\* the frames of a run in front of the camera
CameraFrames == 3

\* what the four fingers do: all extended, the ring and the little finger
\* curled, all but the index curled, all curled; and how far to the side of
\* the index tip the thumb tip is, in 1/NORM of the width: on it, 48 px,
\* 50 px and 100 px away
Fingers ==
    { [index |-> i, middle |-> m, ring |-> r, pinky |-> r, thumb |-> t] :
        i \in {EXT, CURL}, m \in {EXT, CURL}, r \in {EXT, CURL}, t \in {0, 1200, 1250, 2500} }

Hands == { f \in Fingers : (f.index = CURL => f.middle = CURL) /\ (f.middle = CURL => f.ring = CURL) }

\* the 21 raw landmarks of the hand f at anchor (ax, ay), before mirroring
Sample(f, ax, ay) ==
    [k \in 1..LANDMARKS |->
        CASE k = INDEX_TIP + 1  -> Pt(ax, ay - f.index)
          [] k = MIDDLE_TIP + 1 -> Pt(ax, ay - f.middle)
          [] k = RING_TIP + 1   -> Pt(ax, ay - f.ring)
          [] k = PINKY_TIP + 1  -> Pt(ax, ay - f.pinky)
          [] k = THUMB_TIP + 1  -> Pt(ax - f.thumb, ay - f.index)
          [] OTHER              -> Pt(ax, ay)]

\* samples with a landmark missing and with a landmark too many
Short(raw) == SubSeq(raw, 1, LANDMARKS - 1)
Long(raw) == Append(raw, raw[LANDMARKS])

Samples == { Sample(f, 7500, 5000) : f \in Hands }

Malformed == { Short(Pose("PINCH", 7500, 5000)), Long(Pose("PINCH", 7500, 5000)) }

CameraHands ==
    { << s >> : s \in Samples \cup Malformed }
    \cup { << Pose("OPEN_HAND", 3000, 5000), s >> : s \in Malformed }

CameraInputs ==
    { [dt |-> FrameMs, ready |-> rd, frame |-> fr, hands |-> hs, rnd |-> Rnd("NEBULA", 2, 50)] :
        rd \in BOOLEAN, fr \in BOOLEAN, hs \in CameraHands }

NextCamera == \E in \in CameraInputs : Within(CameraFrames, in)

SpecCamera == Init /\ [][NextCamera]_vars

\* the raw classification of the slot's last sample: the last entry of its
\* gesture history
RawOf(p) == p.gestureHistory[Len(p.gestureHistory)]

\* C11, as stated: a hand whose thumb tip is less than the pinch threshold
\* from its index tip is classified PINCH, however many of the four fingers
\* are curled; FIST is the classification only of a hand whose pinch
\* distance is not below the threshold.
C11_PinchFirst ==
    \A i \in DOMAIN prevHandData :
        prevHandData[i] # << >> =>
            /\ dist2d(prevHandData[i][1].landmarks, THUMB_TIP, INDEX_TIP) < 50 * PX
                 => RawOf(prevHandData[i][1]) = "PINCH"
            /\ RawOf(prevHandData[i][1]) = "FIST"
                 => ~(dist2d(prevHandData[i][1].landmarks, THUMB_TIP, INDEX_TIP) < 50 * PX)

---------------------------------------------------------------------------
(* The particles of one burst, followed until the last of them is gone *)

\* the frames of a run that follows the particles of a burst
ParticleFrames == 40

\* the particle list `age` frames after it was ps, no burst in between
RECURSIVE Steps(_, _)
Steps(ps, age) ==
    IF ps = << >> \/ age = 0 THEN ps
    ELSE Steps(SelectSeq([k \in 1..Len(ps) |-> StepParticle(ps[k])], Alive), age - 1)

\* the same, fifty frames at a time
RECURSIVE Aged(_, _)
Aged(ps, age) ==
    IF ps = << >> \/ age <= 50 THEN Steps(ps, age)
    ELSE Aged(Steps(ps, 50), age - 50)

\* the bubble that burst: of radius 20, in the middle of the canvas or 20 px
\* above its lower edge
Burster(y) == createBubble(200 * PX, y, 20, 0, 0, FALSE, Rnd("NEBULA", 2, 50), 0, 0)[1]

\* how long ago the burst was: a POPPING burst is followed from its tick,
\* the longer-lived particles of the others from their last frames
BurstAges ==
    [ POPPING |-> {0, 1}, SHATTER |-> {180, 190}, MELT |-> {250, 260}, EVAPORATE |-> {90, 100} ]

\* the burst was in the handler before the first of the `age` frames: the
\* particles it pushed have since been through the particle loop age times
InitParticles ==
    \E type \in DOMAIN BurstAges, y \in {150 * PX, 280 * PX} :
        \E age \in BurstAges[type] :
            SeededWith(<< >>,
                       Aged(createParticles(Burster(y), type, Rnd("NEBULA", 2, 50)), age),
                       << >>, age * FrameMs,
                       [ NoHist EXCEPT !.dead = {1},
                                       !.bursts = << [id |-> 1, type |-> type] >> ],
                       1)

NextParticles ==
    \E r \in Rnds :
        Within(ParticleFrames,
               [dt |-> FrameMs, ready |-> TRUE, frame |-> TRUE, hands |-> << >>, rnd |-> r])

SpecParticles == InitParticles /\ [][NextParticles]_vars

Lives(e) == e.to > 0

\* the passes of the last tick's particle loop that left the particle in
\* the list
Kept(log) == SelectSeq(log.decayed, Lives)

\* the longest life a particle is made with, 3.5, and the least a tick
\* takes from a life that is no longer, 0.02 / 3.5, in 1/LIFE
LongestLife == 35000
LeastDecay == ((2 * LIFE * LIFE) \div 100) \div LongestLife

\* what a tick has done to the particles: every particle the loop started
\* with has lost life, and those with life left are the list, in order
Decayed ==
    obs.kind = "tick" /\ ~obs.thrown =>
        /\ Len(obs.decayed) = obs.entered[2]
        /\ \A e \in Elems(obs.decayed) : e.to < e.from /\ e.from - e.to >= LeastDecay
        /\ Len(particles) = Len(Kept(obs))
        /\ \A k \in 1..Len(particles) :
               particles[k].life = Kept(obs)[Len(particles) + 1 - k].to

\* C12: every particle's life is strictly smaller after each tick than
\* before it; a particle whose life is 0 or less after its step is spliced
\* in that tick, so that every stored particle has a life above 0 after
\* every tick; and every particle is removed after finitely many ticks: a
\* life is at most 3.5 and a tick takes at least 0.0057 from it, and the
\* list of a burst followed to the end of the run is empty then.
C12_ParticlesDecay ==
    /\ Decayed
    /\ \A p \in Elems(particles) : 0 < p.life /\ p.life <= p.maxLife /\ p.maxLife <= LongestLife
    /\ ticks = ParticleFrames => particles = << >>

\* a tick has spliced a particle whose life was used up and has left
\* another, with less life than it had, in the list
C12_SplicedBesideKept ==
    /\ \E e \in Elems(obs.decayed) : e.to <= 0
    /\ \E e \in Elems(obs.decayed) : e.to > 0
    /\ particles # << >>

---------------------------------------------------------------------------
(* The pinch scenario: one hand pinches tick after tick, then leaves *)

PinchFrames == 32

\* the ambient spawn timer the scenario starts with: the program's first
\* tick, and thirty idle ticks later
PinchTimers == {0, 30}

InitPinch ==
    \E timer \in PinchTimers :
       SeededAt(<< >>, << >>, << >>, timer * FrameMs, NoHist, 0, timer)

PinchHands == { << Pose("PINCH", a.x, a.y) >> : a \in GestureAnchors }

\* a tick with a pinching hand: a new sample of it, which may move before
\* the second tick, or no new video frame
PinchInputs ==
    { [dt |-> FrameMs, ready |-> TRUE, frame |-> f, hands |-> hs, rnd |-> r] :
        f \in BOOLEAN, hs \in PinchHands, r \in Rnds }

Still(in) == IF handResults = << >> \/ ticks < 2 THEN TRUE ELSE Mirror(in.hands[1]) = handResults[1].landmarks

\* the hand holds its pinch
Pinching(in) ==
    /\ ticks = 0 \/ abc # << >>
    /\ IF in.frame THEN Still(in) ELSE handResults # << >>
    /\ Within(PinchFrames, in)

\* the hand is gone from the next video frame
Leaving(rnd) ==
    /\ abc # << >>
    /\ Within(PinchFrames, [dt |-> FrameMs, ready |-> TRUE, frame |-> TRUE, hands |-> << >>, rnd |-> rnd])

NextPinch ==
    \/ \E in \in PinchInputs : Pinching(in)
    \/ \E r \in Rnds : Leaving(r)

SpecPinch == InitPinch /\ [][NextPinch]_vars

\* the bubbles a tick pushed for one cause
CreatedBy(log, by) == SelectSeq(log.created, LAMBDA c : c.by = by)

\* the tick that followed the pinch ticks found no pinching hand
PinchReleased == ticks > 1 /\ abc = << >>

---------------------------------------------------------------------------
(* The store at its cap: trail bubbles spread over the canvas, the last    *)
(* place free or taken, and the mouse pressed and released between two     *)
(* runs of update                                                          *)

Cap == MAX_BUBBLES + 10

\* n trail bubbles of radius 10 made at time 0, 40 px apart in rows of nine
Spread(n) ==
    [k \in 1..n |->
        [ createBubble((30 + 40 * ((k - 1) % 9)) * PX, (60 + 50 * ((k - 1) \div 9)) * PX, 10,
                       0, -1 * PX, TRUE, Rnd("NEBULA", 2, 50), 0, 0)[1] EXCEPT !.id = k ]]

\* a long press of radius 13 held in the lower right corner
CornerPress == << [ x |-> 380 * PX, y |-> 285 * PX, radius |-> 13, timer |-> 6 ] >>

InitCap ==
    \E n \in {Cap - 1, Cap}, pressed \in {<< >>, CornerPress} :
        Seeded(Spread(n), pressed, GRACE_MS, {})

\* the mouse handlers, between two runs of update
NextCap ==
    \/ \E b \in {0}, p \in Points, r \in Rnds : MouseDown(b, p.x, p.y, r)
    \/ \E p \in Points : MouseMove(p.x, p.y)
    \/ \E r \in Rnds : MouseUp(r)
    \/ \E r \in Rnds : MouseLeave(r)

SpecCap == InitCap /\ [][NextCap]_vars

\* C14: with the store at or above the cap of MAX_BUBBLES + 10 bubbles no
\* spawn trigger (ambient, trail, pinch or long-press release) adds a
\* bubble, so that spawning never takes the store beyond the cap; and no
\* bubble is removed to enforce the cap.
C14_NoSpawnAtCap ==
    /\ \A k \in 1..Len(obs.created) : obs.created[k].n < Cap
    /\ Len(obs.created) > 0 => Len(bubbles) <= Cap
    /\ \A k \in 1..Len(obs.removed) :
          obs.removed[k].cause \in {"pop", "melt", "evaporate", "click", "shatter", "top", "merge"}

\* C15: a sample whose landmark count is not 21 is discarded for the tick:
\* it makes no entry in the tick's hand results, which hold one hand of 21
\* landmarks per well-formed sample, and the stored state of its slot is
\* left as it was.
C15_MalformedDiscarded ==
    [][ (obs'.kind = "tick" /\ obs'.detected) =>
            \A i \in 1..Len(obs'.samples) :
                obs'.samples[i] # LANDMARKS =>
                    /\ prevHandData'[i] = prevHandData[i]
                    /\ \A k \in 1..Len(handResults') : Len(handResults'[k].landmarks) = LANDMARKS
                    /\ Len(handResults') =
                           Cardinality({j \in 1..Len(obs'.samples) : obs'.samples[j] = LANDMARKS}) ]_vars

---------------------------------------------------------------------------
(* The forces that divide by a distance: the FIST and right-button         *)
(* repulsions, and the forces of the pair scan of                          *)
(* components/MicroverseCanvas.tsx (lines 1796-1833), which pushes a pair  *)
(* of trail bubbles apart while one of them is young                       *)

PairFrames == 2

immunity == 2000

isTrailBoth(b1, b2) == b1.isTrail /\ b2.isTrail

isYoungTrailPair(b1, b2, t) ==
    isTrailBoth(b1, b2) /\ (t - b1.creationTime < immunity \/ t - b2.creationTime < immunity)

\* const ax = (b2.x - b1.x) / d * repelForce with repelForce = 0.05 * u;
\* for d = 0 the quotient is 0 / 0, NaN, and so are the four velocities
YoungRepel(w, i, j, d, u) ==
    IF d = 0
    THEN [ w EXCEPT !.log.divided = Append(@, d),
                    !.log.nan = @ \o << w.bs[i].id, w.bs[j].id >> ]
    ELSE [ w EXCEPT !.bs[i].vx = @ - Scale((w.bs[j].x - w.bs[i].x) * 5 * u, 1, d * 1000),
                    !.bs[i].vy = @ - Scale((w.bs[j].y - w.bs[i].y) * 5 * u, 1, d * 1000),
                    !.bs[j].vx = @ + Scale((w.bs[j].x - w.bs[i].x) * 5 * u, 1, d * 1000),
                    !.bs[j].vy = @ + Scale((w.bs[j].y - w.bs[i].y) * 5 * u, 1, d * 1000),
                    !.log.divided = Append(@, d) ]

\* const attractForce = 0.001
YoungAttract(w, i, j) ==
    [ w EXCEPT !.bs[i].vx = @ + Scale(w.bs[j].x - w.bs[i].x, 1, 1000),
               !.bs[i].vy = @ + Scale(w.bs[j].y - w.bs[i].y, 1, 1000),
               !.bs[j].vx = @ - Scale(w.bs[j].x - w.bs[i].x, 1, 1000),
               !.bs[j].vy = @ - Scale(w.bs[j].y - w.bs[i].y, 1, 1000) ]

\* the young trail pair at distance d: pushed apart when the bubbles
\* overlap, drawn together up to one and a half times the sum of the radii
YoungPair(w, i, j, d, rSum) ==
    IF ~(d * 10 < rSum * 18) THEN w
    ELSE IF d < rSum THEN YoungRepel(w, i, j, d, 1000 - (d * 1000) \div ((rSum * 18) \div 10))
    ELSE IF d * 10 < rSum * 15 THEN YoungAttract(w, i, j)
    ELSE w

\* the forces on the pair (i, j); a pair that is not young is drawn together
\* as in the scan of unnamed/part_001
PairForce(w, i, j) ==
    IF Skipped(w.bs[i]) \/ Skipped(w.bs[j]) THEN w
    ELSE IF Abs(w.bs[i].x - w.bs[j].x) > FAR_X * PX \/ Abs(w.bs[i].y - w.bs[j].y) > FAR_X * PX THEN w
    ELSE IF isYoungTrailPair(w.bs[i], w.bs[j], w.t)
    THEN YoungPair(w, i, j, dist(w.bs[i], w.bs[j]), Radius(w.bs[i].rsq) + Radius(w.bs[j].rsq))
    ELSE Cohere(w, i, j, dist(w.bs[i], w.bs[j]))

\* a force step of a frame on the store, the rest of the frame left out
Forced(w) ==
    /\ ticks < PairFrames
    /\ obs.nan = << >>
    /\ Updated(w)
    /\ ticks' = ticks + 1
    /\ now' = w.t
    /\ UNCHANGED << mouse, videoTime >>

Forces(kind) == Noted(Work(Rnd("NEBULA", 2, 50), now + FrameMs), kind, FALSE)

\* the pair scan's forces on the two bubbles of the store
PairForces == Forced(PairForce(Forces("pair"), 1, 2))

\* a fist held (gain 20, damping 0.92), or the right button held (gain 15,
\* damping 0.95), on the centre of the bubble at index k
Repelled(k, gain, damp) ==
    Forced(RepelAll(Forces("repel"), bubbles[k].x, bubbles[k].y, gain, damp))

\* where the second trail bubble is from the first, in pixels
PairOffsets == {-12, 0, 7, 25}

\* the time since the two were made: within the immunity, and past it
PairAges == {0, 1000}

TrailAt(x, y, id) ==
    [ createBubble(x, y, 10, 0, -1 * PX, TRUE, Rnd("NEBULA", 2, 50), 0, 0)[1] EXCEPT !.id = id ]

InitTrailPair ==
    \E dx \in PairOffsets, dy \in PairOffsets, age \in PairAges :
        Seeded(<< TrailAt(200 * PX, 150 * PX, 1), TrailAt((200 + dx) * PX, (150 + dy) * PX, 2) >>,
               << >>, age, {})

NextTrailPair ==
    \/ PairForces
    \/ \E k \in 1..2 : Repelled(k, 20, 92)
    \/ \E k \in 1..2 : Repelled(k, 15, 95)

SpecTrailPair == InitTrailPair /\ [][NextTrailPair]_vars

\* C16: no force step divides by a zero distance; the FIST repulsion, the
\* right-button repulsion and the repulsion of a young pair of trail bubbles
\* each leave out the distance 0 before they divide by it, two bubbles at
\* the same place included.
C16_NoDivisionByZero ==
    /\ \A k \in 1..Len(obs.divided) : obs.divided[k] # 0
    /\ obs.nan = << >>

\* the gesture history of a slot's record, empty for an empty slot
HistoryOf(slot) == IF slot = << >> THEN << >> ELSE slot[1].gestureHistory

\* the history `new` is `old` with one entry pushed
Gained(old, new) == new # << >> /\ new = PushHistory(old, new[Len(new)])

\* C17: detection runs at most once per video frame time.  A tick whose
\* video time is the one of the last detection detects nothing, keeps the
\* hand results and pushes to no gesture history; a tick that detects
\* records the video time and pushes exactly one entry to the history of
\* every slot it has a hand for, none to the others.
C17_DetectOncePerFrame ==
    [][ obs'.kind = "tick" =>
          /\ videoTime' = lastVideoTime => ~obs'.detected
          /\ lastVideoTime' = (IF obs'.detected THEN videoTime' ELSE lastVideoTime)
          /\ ~obs'.detected =>
                /\ handResults' = handResults
                /\ \A i \in DOMAIN prevHandData :
                      HistoryOf(prevHandData'[i]) = HistoryOf(prevHandData[i])
          /\ (obs'.detected /\ ~obs'.thrown) =>
                /\ Len(handResults') = Len(obs'.samples)
                /\ \A i \in DOMAIN prevHandData :
                      IF i <= Len(obs'.samples)
                      THEN Gained(HistoryOf(prevHandData[i]), HistoryOf(prevHandData'[i]))
                      ELSE HistoryOf(prevHandData'[i]) = HistoryOf(prevHandData[i]) ]_vars

\* a tick without a new video frame, after a detection that found a hand
C17_SkippedWithHand ==
    /\ obs.kind = "tick"
    /\ ~obs.detected
    /\ lastVideoTime = videoTime
    /\ handResults # << >>
    /\ HistoryOf(prevHandData[1]) # << >>

---------------------------------------------------------------------------
(* The three loops of update over a store and a particle list that lose    *)
(* elements on the way: bubbles that merge, one that leaves at the top,    *)
(* a frozen one that shatters, and particles at the end of their lives     *)

LoopFrames == 3

\* a released bubble of radius 20 with the given id
Placed(x, y, id) ==
    Release(createBubble(x * PX, y * PX, 20, 0, 0, FALSE, Rnd("NEBULA", 2, 50), id - 1, 0))[1]

\* n bubbles 3 px apart, each touching the others if there are any
Cluster(n) == [k \in 1..n |-> Placed(200 + 3 * (k - 1), 150, 2 + k)]

\* a bubble about to leave at the top, the cluster, a frozen bubble about to
\* land and a bubble that stays
Crowd(n) ==
    << Placed(60, -41, 2) >> \o Cluster(n)
       \o << [ Freeze(Placed(320, HEIGHT - 20, n + 3)) EXCEPT !.stateTimer = 1000, !.y = @ - 10 ],
             Placed(320, 150, n + 4) >>

\* how many frames ago a bubble was popped: its flash, its ring or its
\* sparks are in their last frame, or the one before
LoopAges == {0, 1, 6, 7, 12, 13}

\* the particles of a bubble that melted in the last handler, and behind
\* them what is left of a POPPING burst
Leftovers(age) ==
    createParticles([ Burster(150 * PX) EXCEPT !.id = 0 ], "MELT", Rnd("NEBULA", 2, 50))
        \o Aged(createParticles(Burster(150 * PX), "POPPING", Rnd("NEBULA", 2, 50)), age)

InitLoops ==
    \E n \in {1, 2, 3}, age \in LoopAges :
        SeededWith(Crowd(n), Leftovers(age), << >>, age * FrameMs,
                   [ NoHist EXCEPT !.dead = {0, 1}, !.everFrozen = {n + 3},
                                   !.bursts = << [id |-> 1, type |-> "POPPING"],
                                                 [id |-> 0, type |-> "MELT"] >> ],
                   n + 4)

NextLoops ==
    \E r \in Rnds :
        Within(LoopFrames,
               [dt |-> FrameMs, ready |-> TRUE, frame |-> TRUE, hands |-> << >>, rnd |-> r])

SpecLoops == InitLoops /\ [][NextLoops]_vars

Reverse(s) == [k \in 1..Len(s) |-> s[Len(s) - k + 1]]

\* C18: the loops are safe under removal in place.  The bubble loop passes
\* once over every bubble the store holds when it starts, last to first,
\* whichever of them it removes; after a merge has removed the bubble at
\* index j, the bubble that moved to index j is compared with the same outer
\* bubble; the particle loop passes once over every particle of the list,
\* last to first.
C18_LoopsPassOnce ==
    [][ (obs'.kind = "tick" /\ ~obs'.thrown) =>
          /\ obs'.visited = Reverse(obs'.entered[1])
          /\ \A k, l \in 1..Len(obs'.visited) : obs'.visited[k] = obs'.visited[l] => k = l
          /\ \A m \in MergesOf(obs') :
                m.next = 0 \/ \E p \in 1..Len(obs'.pairs) : obs'.pairs[p] = << m.survivor, m.next >>
          /\ Len(obs'.decayed) = obs'.entered[2]
          /\ \A k \in 1..Len(obs'.decayed) : obs'.decayed[k].at = obs'.entered[2] - k + 1
          /\ \A k \in 1..Len(particles) :
                obs'.decayed[obs'.entered[2] - k + 1].from = particles[k].life ]_vars

\* a tick in which a merge moved a bubble to the index of the absorbed one,
\* the bubble loop removed a bubble and went on to others, and the particle
\* loop spliced a particle, went on to others and kept one
C18_RemovedOnTheWay ==
    /\ obs.kind = "tick"
    /\ \E m \in MergesOf(obs) : m.next # 0
    /\ \E k \in 1..Len(obs.visited) :
          /\ k < Len(obs.visited)
          /\ \E r \in 1..Len(obs.removed) :
                obs.removed[r].id = obs.visited[k] /\ obs.removed[r].cause # "merge"
    /\ \E k, l \in 1..Len(obs.decayed) :
          k < Len(obs.decayed) /\ obs.decayed[k].to <= 0 /\ obs.decayed[l].to > 0

---------------------------------------------------------------------------
(* Pointing hands over a store: one or two fingertips on or near bubbles   *)
(* that float or are frozen, high or at the bottom, old or just made       *)

PointFrames == 3

\* the time between two runs of update at sixty frames per second
QuickMs == 16

\* a released bubble of radius r made at time t
Sized(x, y, r, t) ==
    Release(createBubble(x * PX, y * PX, r, 0, 0, FALSE, Rnd("NEBULA", 2, 50), 0, t))[1]

\* the fingertips of PointX and PointY are at (232, 258) and (262, 258); a
\* bubble of radius 45 there is at the bottom, one of radius 20 is not
PointStores ==
    { << Sized(232, 258, 20, 0) >>,
      << Sized(232, 258, 45, 0) >>,
      << Freeze(Sized(232, 258, 20, 0)) >>,
      << Sized(232, 258, 20, 0), Sized(262, 258, 20, 0) >>,
      << Sized(232, 258, 20, GRACE_MS), Sized(250, 258, 20, 0) >> }

Numbered(bs) == [k \in 1..Len(bs) |-> [bs[k] EXCEPT !.id = k]]

InitPoint ==
    \E bs \in PointStores :
        Seeded(Numbered(bs), << >>, GRACE_MS,
               {k \in 1..Len(bs) : bs[k].state = "FROZEN"})

PointHands == { << >>, << PointX >>, << PointY >>, << PointX, PointY >> }

PointInputs ==
    { [dt |-> dt, ready |-> TRUE, frame |-> TRUE, hands |-> hs, rnd |-> r] :
        dt \in {QuickMs, FrameMs}, hs \in PointHands, r \in Rnds }

NextPoint == \E in \in PointInputs : Within(PointFrames, in)

SpecPoint == InitPoint /\ [][NextPoint]_vars

\* the types of the bursts of the bubble `id` in the handler
BurstsOf(log, id) ==
    [k \in 1..Len(SelectSeq(log.bursts, LAMBDA e : e.id = id)) |->
        SelectSeq(log.bursts, LAMBDA e : e.id = id)[k].type]

Stored(id) == {bubbles[k] : k \in {j \in 1..Len(bubbles) : bubbles[j].id = id}}

\* the hand is fast: the bubble is gone with one POPPING burst
Popped(t) == Stored(t.id) = {} /\ BurstsOf(obs, t.id) = << "POPPING" >>

\* one of the three removals of a slow touch
Dissolved(t) ==
    /\ Stored(t.id) = {}
    /\ Len(BurstsOf(obs, t.id)) = 1
    /\ BurstsOf(obs, t.id)[1] \in {"MELT", "EVAPORATE", "POPPING"}

\* a slow touch of a frozen bubble: nothing but the kinematics of a frozen
\* bubble happens to it
Untouched(t) ==
    /\ \A b \in Stored(t.id) : b.state = "FROZEN"
    /\ \A k \in 1..Len(BurstsOf(obs, t.id)) : BurstsOf(obs, t.id)[k] = "SHATTER"
    /\ \A r \in Elems(obs.removed) : r.id = t.id => r.cause = "shatter"

\* C19, as stated: on a contact with the LockedTarget a fast hand removes
\* the bubble with a POPPING burst, floating or frozen; a slow hand on a
\* floating bubble leaves it in the store FROZEN with stateTimer reset and
\* vy = 0, or removes it with exactly one MELT, EVAPORATE or POPPING burst; a
\* slow hand on a frozen bubble changes nothing.
C19_FourOutcomes ==
    obs.kind = "tick" =>
        \A k \in 1..Len(obs.touched) :
            IF obs.touched[k].fast THEN Popped(obs.touched[k])
            ELSE IF obs.touched[k].state = "FLOATING"
            THEN \/ /\ BurstsOf(obs, obs.touched[k].id) = << >>
                    /\ \E b \in Stored(obs.touched[k].id) :
                          b.state = "FROZEN" /\ b.stateTimer = 0 /\ b.vy = 0
                 \/ Dissolved(obs.touched[k])
            ELSE Untouched(obs.touched[k])

\* C19, amended: the bubble a slow hand freezes goes through the step of a
\* frozen bubble in the same tick: it is in the store FROZEN with vy = 0 and
\* stateTimer 0.008, or, being at the bottom, it is removed with one SHATTER
\* burst.  The other outcomes are as stated.
C19_FourOutcomesThenFrozenStep ==
    obs.kind = "tick" =>
        \A k \in 1..Len(obs.touched) :
            IF obs.touched[k].fast THEN Popped(obs.touched[k])
            ELSE IF obs.touched[k].state = "FLOATING"
            THEN \/ /\ obs.touched[k].id \in Elems(obs.frozen)
                    /\ \/ /\ BurstsOf(obs, obs.touched[k].id) = << >>
                          /\ \E b \in Stored(obs.touched[k].id) :
                                b.state = "FROZEN" /\ b.stateTimer = 8 /\ b.vy = 0
                       \/ /\ BurstsOf(obs, obs.touched[k].id) = << "SHATTER" >>
                          /\ Stored(obs.touched[k].id) = {}
                 \/ /\ obs.touched[k].id \notin Elems(obs.frozen)
                    /\ Dissolved(obs.touched[k])
            ELSE Untouched(obs.touched[k])

\* a slow hand froze a floating bubble at the bottom, which shattered in
\* the same tick
C19_FrozenAndShattered ==
    /\ obs.kind = "tick"
    /\ \E k \in 1..Len(obs.touched) :
          /\ ~obs.touched[k].fast
          /\ obs.touched[k].state = "FLOATING"
          /\ obs.touched[k].id \in Elems(obs.frozen)
          /\ BurstsOf(obs, obs.touched[k].id) = << "SHATTER" >>

\* the fingertips of the hands whose stable gesture is POINT
Tips == {IndexTip(handResults[k]) : k \in {j \in 1..Len(handResults) : handResults[j].gesture = "POINT"}}

\* the distances from b to the fingertips within its lock range
Reaches(b) ==
    {Hypot(b.x - tip.x, b.y - tip.y) : tip \in
        {p \in Tips : Hypot(b.x - p.x, b.y - p.y) < Radius(b.rsq) + LOCK_RANGE * PX}}

\* the bubbles the targeting may lock: past their grace period and within
\* the lock range of a POINT fingertip
Candidates == {b \in Elems(obs.before) : Old(b) /\ Reaches(b) # {}}

ContactCauses == {"pop", "melt", "evaporate"}

\* the ids of the bubbles the contact resolution removed or froze
Contacted ==
    Elems(obs.frozen) \cup {obs.removed[k].id : k \in {j \in 1..Len(obs.removed) :
                                                          obs.removed[j].cause \in ContactCauses}}

\* C20: the LockedTarget is computed anew in every tick: it is empty when no
\* eligible bubble is within its lock range of a POINT fingertip, in
\* particular when no hand points, and is otherwise a bubble no eligible
\* bubble in range is nearer to a POINT fingertip than; at most one bubble
\* per tick is removed or frozen by the contact resolution, the
\* LockedTarget.
C20_NearestEligibleLocked ==
    (obs.kind = "tick" /\ ~obs.thrown) =>
        /\ Tips = {} => lockedTarget = << >>
        /\ lockedTarget = << >> <=> Candidates = {}
        /\ lockedTarget # << >> =>
              \E b \in Candidates :
                 /\ lockedTarget[1] = [id |-> b.id, x |-> b.x, y |-> b.y, rsq |-> b.rsq]
                 /\ \E d \in Reaches(b) : \A c \in Candidates : \A e \in Reaches(c) : d <= e
        /\ Len(obs.frozen) + Cardinality({j \in 1..Len(obs.removed) :
                                             obs.removed[j].cause \in ContactCauses}) <= 1
        /\ \A id \in Contacted : lockedTarget # << >> /\ lockedTarget[1].id = id

\* two hands point, two bubbles are in range, and the contact resolution
\* has removed or frozen the locked one
C20_OneOfTwoContacted ==
    /\ obs.kind = "tick"
    /\ Cardinality(Tips) = 2
    /\ Cardinality(Candidates) = 2
    /\ lockedTarget # << >>
    /\ Contacted = {lockedTarget[1].id}

---------------------------------------------------------------------------
(* The ActiveCreation between hands and mouse: one or two pinching hands   *)
(* that come and go while a mouse button is pressed, the pointer moved and *)
(* the button released, in any order                                       *)

CreateFrames == 3

\* two hands that pinch, their fingertips at (100, 60) and (280, 60)
PinchA == Pose("PINCH", 7500, 5000)
PinchB == Pose("PINCH", 3000, 5000)

CreateHands == { << >>, << PinchA >>, << PinchA, PinchB >> }

CreateInputs ==
    { [dt |-> FrameMs, ready |-> TRUE, frame |-> TRUE, hands |-> hs, rnd |-> Rnd("NEBULA", 2, 50)] :
        hs \in CreateHands }

\* where the pointer goes after the press at (220, 285): 5 px and 20 px away
CreateMoves == { Pt(240, 285) }

NextCreate ==
    \/ \E in \in CreateInputs : Within(CreateFrames, in)
    \/ \E b \in {0}, p \in Points : MouseDown(b, p.x, p.y, Rnd("NEBULA", 2, 50))
    \/ \E p \in CreateMoves : mouse.isDown /\ MouseMove(p.x, p.y)
    \/ MouseUp(Rnd("NEBULA", 2, 50))
    \/ MouseLeave(Rnd("NEBULA", 2, 50))

\* the hand PinchA has pinched in place for n ticks: its ActiveCreation has
\* grown from PINCH_START_RADIUS at the fingertip, and the slot's window
\* holds n times PINCH
PinchHeld(n) ==
    /\ bubbles = << >>
    /\ particles = << >>
    /\ handResults = << ProcessHand(PinchA, << >>).hand >>
    /\ prevHandData = [i \in 1..MaxHands |->
           IF i = 1
           THEN << [ ProcessHand(PinchA, << >>).prev
                     EXCEPT !.gestureHistory = [k \in 1..Min(n, GESTURE_HISTORY_SIZE) |-> "PINCH"] ] >>
           ELSE << >>]
    /\ abc = << [ x |-> IndexTip(ProcessHand(PinchA, << >>).hand).x,
                  y |-> IndexTip(ProcessHand(PinchA, << >>).hand).y,
                  radius |-> PINCH_START_RADIUS + n - 1, timer |-> n - 1 ] >>
    /\ lockedTarget = << >>
    /\ mouse = [ x |-> -1000 * PX, y |-> -1000 * PX, vx |-> 0, vy |-> 0, isDown |-> FALSE,
                 isRightDown |-> FALSE, startX |-> 0, startY |-> 0, isDragging |-> FALSE ]
    /\ mouseTrail = << >>
    /\ spawnTimer = n
    /\ lastVideoTime = n
    /\ videoTime = n
    /\ now = n * FrameMs
    /\ nextId = 0
    /\ ticks = 0
    /\ obs = [kind |-> "init"] @@ EmptyLog
    /\ hist = NoHist

\* the program's first frame, or the frame after five ticks of a pinch
InitCreate == Init \/ PinchHeld(5)

SpecCreate == InitCreate /\ [][NextCreate]_vars

\* the bubbles pushed for the ActiveCreation, by handleMouseUp or by update
Committed(log) == SelectSeq(log.created, LAMBDA c : c.by \in {"up", "release"})

\* C21, as stated: an ActiveCreation becomes a bubble on release only if its
\* radius exceeds 20; on every release path (the pinch ends, the button is
\* released, the mouse leaves) one of radius 20 or less is discarded and
\* adds no bubble.
C21_CommittedAbove20 ==
    /\ \A c \in Elems(obs.commits) : c.radius > PINCH_MIN_RADIUS
    /\ \A d \in Elems(obs.dropped) : d.by # "drag" => d.radius <= PINCH_MIN_RADIUS
    /\ obs.commits = << >> => Committed(obs) = << >>

\* C21, amended: the threshold is the one of the release path.  The tick that
\* finds no PINCH hand and the left button up commits an ActiveCreation of
\* radius above 20 and discards one of radius 20 or less; handleMouseUp, also
\* when called by handleMouseLeave, commits one of radius above 12 and
\* discards one of radius 12 or less.  A discarded ActiveCreation adds no
\* bubble, and either way the ActiveCreation is null afterwards.
C21_CommittedAbovePathThreshold ==
    /\ \A c \in Elems(obs.commits) :
          \/ c.by = "release" /\ obs.kind = "tick" /\ c.radius > PINCH_MIN_RADIUS
          \/ c.by = "up" /\ obs.kind \in {"up", "leave"} /\ c.radius > PRESS_MIN_RADIUS
    /\ \A d \in Elems(obs.dropped) :
          \/ d.by = "release" /\ obs.kind = "tick" /\ d.radius <= PINCH_MIN_RADIUS
          \/ d.by = "up" /\ obs.kind \in {"up", "leave"}
                         /\ (d.radius <= PRESS_MIN_RADIUS \/ d.dragging)
          \/ d.by = "drag" /\ obs.kind = "tick"
    /\ obs.commits = << >> => Committed(obs) = << >>
    /\ obs.commits # << >> =>
          /\ Len(obs.commits) = 1
          /\ abc = << >>
          /\ Committed(obs) # << >>
          /\ Committed(obs)[1].rsq = obs.commits[1].radius * obs.commits[1].radius
    /\ \A d \in Elems(obs.dropped) : d.by # "drag" => abc = << >>

\* the button is released on a long press of radius 13: a bubble is made
C21_PressCommittedAt13 ==
    /\ obs.kind = "up"
    /\ obs.commits # << >>
    /\ obs.commits[1].radius = PRESS_MIN_RADIUS + 1

\* C22, as stated: while PINCH is held and an ActiveCreation exists, its
\* radius grows by 1 in every tick, however many hands pinch and whether or
\* not the left button is held too.
C22_GrowsByOnePerTick ==
    [][ (obs'.kind = "tick" /\ abc # << >> /\ abc' # << >> /\ IsPinching(handResults'))
           => abc'[1].radius = abc[1].radius + 1 ]_vars

\* C23: after every tick and after every mouse handler an ActiveCreation
\* exists only if some hand of the hand results has the stable gesture PINCH
\* or the left button is down.
C23_HeldWhileCreating == abc # << >> => IsPinching(handResults) \/ mouse.isDown

\* a tick has ended the ActiveCreation of a pinch that was too small to
\* commit: no hand pinches and the button is up
C23_SmallPinchEnded ==
    /\ obs.kind = "tick"
    /\ \E d \in Elems(obs.dropped) : d.by = "release"
    /\ abc = << >>
    /\ ~IsPinching(handResults) /\ ~mouse.isDown

\* C30: whatever the order of ticks and mouse handlers, a handler commits at
\* most one ActiveCreation, the one it finds, and leaves none behind, so that
\* handleMouseUp and the auto-release of update never both make bubbles of
\* the same one; and while the press is a drag no handler commits: update
\* and handleMouseUp set the ActiveCreation to null without making a bubble
\* of it.
C30_CommittedOnce ==
    [][ /\ Len(obs'.commits) <= 1
        /\ obs'.commits # << >> =>
              /\ abc # << >> /\ abc' = << >>
              /\ obs'.commits[1].x = abc[1].x /\ obs'.commits[1].y = abc[1].y
              /\ obs'.commits[1].radius = abc[1].radius
              /\ Cardinality({k \in 1..Len(obs'.created) :
                     obs'.created[k].by \in {"up", "release"} /\ obs'.created[k].part = 1}) = 1
        /\ obs'.commits = << >> => Committed(obs') = << >>
        /\ mouse.isDragging =>
              /\ mouse.isDown
              /\ obs'.commits = << >>
              /\ (obs'.kind \in {"tick", "up", "leave"} /\ ~obs'.thrown) => abc' = << >>
      ]_vars

\* the button is released on a press that became a drag after it had grown
\* beyond the minimum radius: no bubble is made
C30_DraggedPressDropped ==
    /\ obs.kind = "up"
    /\ \E d \in Elems(obs.dropped) : d.dragging /\ d.radius > PRESS_MIN_RADIUS
    /\ obs.created = << >>

---------------------------------------------------------------------------
(* The ambient spawn: the store below, one short of and at the cap of the  *)
(* ambient spawn, the timer at zero or about to pass the spawn interval,   *)
(* a long press held or not                                                *)

AmbientFrames == 54

\* bubbles of radius 20 left by earlier presses, too far apart to stick:
\* six to a row, the rows 90 px apart
AmbientSlot(k) == Sized(30 + 70 * ((k - 1) % 6), 240 - 90 * ((k - 1) \div 6), 20, 0)

\* a bubble that is about to float away at the top
AtTheTop == Sized(380, -39, 20, 0)

AmbientStores ==
    { << >>,
      [k \in 1..(AMBIENT_CAP - 1) |-> AmbientSlot(k)],
      [k \in 1..(AMBIENT_CAP - 1) |-> AmbientSlot(k)] \o << AtTheTop >> }

\* a long press that has just begun at (200, 20), away from every bubble
AmbientPress ==
    << [ x |-> 200 * PX, y |-> 20 * PX, radius |-> PRESS_START_RADIUS, timer |-> 0 ] >>

InitAmbient ==
    \E bs \in AmbientStores, timer \in {0, BUBBLE_SPAWN_RATE - 1}, pressed \in {<< >>, AmbientPress} :
        /\ pressed # << >> => timer # 0
        /\ SeededAt(Numbered(bs), << >>, pressed, timer * FrameMs, NoHist, Len(bs), timer)

\* createBubble draws a small bubble, or a large one with two satellites
AmbientRnds ==
    { Rnd("NEBULA", 2, 50),
      [ Rnd("FOREST", 2, 50) EXCEPT !.large = TRUE, !.cluster = TRUE, !.count = 2 ] }

\* no hand is seen
AmbientInputs ==
    { [dt |-> FrameMs, ready |-> TRUE, frame |-> TRUE, hands |-> << >>, rnd |-> r] :
        r \in AmbientRnds }

NextAmbient ==
    \/ \E in \in AmbientInputs : Within(AmbientFrames, in)
    \/ mouse.isDown /\ MouseUp(Rnd("NEBULA", 2, 50))

SpecAmbient == InitAmbient /\ [][NextAmbient]_vars

\* the bubbles the ambient spawn pushed in the handler
Ambient(log) == SelectSeq(log.created, LAMBDA c : c.by = "ambient")

\* the length of the store when update reaches the ambient spawn
CountAtSpawn(log) ==
    Len(log.before) + Len(SelectSeq(log.created, LAMBDA c : c.by # "ambient"))

\* the main bubble of an ambient spawn: on the spawn line 50 px below the
\* bottom edge, at least 50 px from either side, moving up
AtBottom(c) ==
    /\ c.y = (HEIGHT + 50) * PX
    /\ c.x >= 50 * PX /\ c.x <= (WIDTH - 50) * PX
    /\ c.vy < 0

---------------------------------------------------------------------------
(* The trail of an open hand: a hand that stays, moves less or more than   *)
(* the spawn step or far across the canvas, opens and closes               *)

TrailFrames == 4

\* where the hand is seen: at (200, 150), 8 px, 20 px and 140 px to its right
TrailAnchors == {5000, 4800, 4500, 1500}

TrailHands ==
    { << >>, << Pose("OPEN_HAND", 5000, 5000), Pose("FIST", 4500, 5000) >>,
      << Pose("OPEN_HAND", 1500, 5000), Pose("FIST", 5000, 5000) >> }
    \cup { << Pose("OPEN_HAND", ax, 5000) >> : ax \in TrailAnchors }
    \cup { << Pose("FIST", ax, 5000) >> : ax \in {5000, 4500} }

TrailInputs ==
    { [dt |-> FrameMs, ready |-> TRUE, frame |-> TRUE, hands |-> hs, rnd |-> Rnd("NEBULA", 2, 50)] :
        hs \in TrailHands }

NextTrail == \E in \in TrailInputs : Within(TrailFrames, in)

SpecTrail == Init /\ [][NextTrail]_vars

\* the hand centre is more than the spawn step from the point p, the
\* distance taken on the model's grid as Math.hypot is
Moved(center, p) == dist(center, p) > SPAWN_STEP * PX

\* C25: in one tick a hand adds trail bubbles only if its stable gesture is
\* OPEN_HAND and its centre is more than the step distance 15 from the last
\* emission point of its slot; it then adds at most 5 bubbles, each a trail
\* bubble without satellites, and the last emission point becomes the hand
\* centre; a hand whose gesture is not OPEN_HAND adds none and the last
\* emission point is reset to its centre.
C25_TrailOfOpenHand ==
    /\ \A e \in Elems(obs.trails) :
          /\ e.n > 0 => e.gesture = "OPEN_HAND" /\ Moved(e.center, e.last)
          /\ e.n <= TRAIL_CAP
          /\ (e.gesture = "OPEN_HAND" /\ Moved(e.center, e.last)) => e.now = e.center
          /\ (e.gesture = "OPEN_HAND" /\ ~Moved(e.center, e.last)) => e.now = e.last
          /\ e.gesture # "OPEN_HAND" => e.n = 0 /\ e.now = e.center
    /\ \A c \in Elems(obs.created) : c.by = "trail" => c.isTrail /\ c.part = 1
    /\ obs.kind = "tick" /\ ~obs.thrown =>
          /\ Len(obs.trails) = Len(handResults)
          /\ \A k \in 1..Len(obs.trails) :
                /\ obs.trails[k].slot = k
                /\ obs.trails[k].gesture = handResults[k].gesture
                /\ obs.trails[k].center = handResults[k].center
                /\ obs.trails[k].now = prevHandData[k][1].lastTrailPos
          /\ Len(SelectSeq(obs.created, LAMBDA c : c.by = "trail"))
                = SeqSum([k \in 1..Len(obs.trails) |-> obs.trails[k].n],
                         [k \in 1..Len(obs.trails) |-> k])

\* an open hand that crossed the canvas left the five bubbles of the cap,
\* beside a fist that left none
C25_FiveBesideNone ==
    /\ \E e \in Elems(obs.trails) : e.n = TRAIL_CAP /\ e.last # e.center /\ e.now = e.center
    /\ \E e \in Elems(obs.trails) : e.gesture = "FIST" /\ e.last # e.center /\ e.now = e.center

---------------------------------------------------------------------------
(* A fist held for ten ticks beside one bubble: the bubble of radius 50 at *)
(* (100, 500) below a fist at (100, 450), and smaller bubbles at, inside,  *)
(* on and outside the range of the repulsion                               *)

FistFrames == 10

\* the fist: its centre is at (100, 450) on the canvas
Fist == Pose("FIST", 7500, 15000)

\* where the bubble is from the centre of the fist, in pixels, and its radius
FistOffsets ==
    { [dx |-> 0, dy |-> 50, r |-> 50],
      [dx |-> 0, dy |-> 0, r |-> 20],
      [dx |-> 0, dy |-> 139, r |-> 20],
      [dx |-> 0, dy |-> 140, r |-> 20],
      [dx |-> 0, dy |-> 200, r |-> 20],
      [dx |-> 30, dy |-> -40, r |-> 20],
      [dx |-> -60, dy |-> 0, r |-> 30] }

\* createBubble(x, y, r) at the offset o: vy is drawn from -0.5 to -1.2
Beside(o, u) ==
    createBubble((100 + o.dx) * PX, (450 + o.dy) * PX, o.r, 0, 0, FALSE, Rnd("NEBULA", 2, u), 0, 0)

\* a second bubble, far from the fist
Aside == createBubble(300 * PX, 450 * PX, 20, 0, 0, FALSE, Rnd("NEBULA", 2, 50), 1, 0)

InitFist ==
    \E o \in FistOffsets, u \in {0, 100}, more \in {<< >>, Aside} :
        Seeded(Beside(o, u) \o more, << >>, 0, {})

NextFist ==
    Within(FistFrames,
           [dt |-> FrameMs, ready |-> TRUE, frame |-> TRUE, hands |-> << Fist >>,
            rnd |-> Rnd("NEBULA", 2, 50)])

SpecFist == InitFist /\ [][NextFist]_vars

\* the bubble of the pass p is within the range of the repulsion and not at
\* its centre: 0 < d < range, on the squares of the distances
InRange(p) ==
    /\ p.dx * p.dx + p.dy * p.dy > 0
    /\ p.dx * p.dx + p.dy * p.dy < p.range * p.range

\* C26: in the FIST step a bubble at a distance 0 < d < 120 + radius from
\* the centre of the fist gets a velocity increment that points away from
\* the centre (followed by the damping of the step), and the step leaves the
\* velocity of a bubble at d = 0 or d >= 120 + radius as it was.  A bubble
\* of radius 50 made at (100, 500) under a fist held at (100, 450) for 10
\* ticks then has a y-velocity greater than the one it was made with, and is
\* in the store: no bubble is removed, and the pair scan never pairs a
\* bubble with itself.
C26_FistRepels ==
    /\ \A p \in Elems(obs.pushes) :
          /\ p.gain = 20
          /\ IF InRange(p)
             THEN /\ p.ix * p.dx >= 0 /\ p.iy * p.dy >= 0
                  /\ p.vx1 = Scale(p.vx0 + p.ix, 92, 100)
                  /\ p.vy1 = Scale(p.vy0 + p.iy, 92, 100)
             ELSE /\ p.ix = 0 /\ p.iy = 0
                  /\ p.vx1 = p.vx0 /\ p.vy1 = p.vy0
    /\ obs.kind = "tick" =>
          /\ Len(obs.pushes) = Len(obs.before)
          /\ \A k \in 1..Len(obs.pushes) :
                /\ obs.pushes[k].id = obs.before[k].id
                /\ obs.pushes[k].range = REPEL_RANGE * PX + Radius(obs.before[k].rsq)
                /\ obs.pushes[k].vx0 = obs.before[k].vx
                /\ obs.pushes[k].vy0 = obs.before[k].vy
                /\ obs.pushes[k].dx = obs.before[k].x - handResults[1].center.x
                /\ obs.pushes[k].dy = obs.before[k].y - handResults[1].center.y
    /\ \A pr \in Elems(obs.pairs) : pr[1] # pr[2]
    /\ hist.dead = {}
    /\ ticks = FistFrames =>
          \A k \in 1..Len(bubbles) :
              bubbles[k].rsq = 50 * 50 => bubbles[k].vy > randomRange(-50, -120, 0)

\* after ten ticks under the fist the bubble of radius 50 is in the store,
\* below where it was made and moving down
C26_PushedDown ==
    /\ ticks = FistFrames
    /\ handResults # << >> /\ handResults[1].gesture = "FIST"
    /\ handResults[1].center = Pt(100 * PX, 450 * PX)
    /\ \E k \in 1..Len(bubbles) :
          /\ bubbles[k].rsq = 50 * 50 /\ bubbles[k].id = 1
          /\ bubbles[k].x = 100 * PX /\ bubbles[k].y > 500 * PX
          /\ bubbles[k].vy > 0

---------------------------------------------------------------------------
(* The walls: a bubble released beside the left or the right wall, one     *)
(* released with its centre nearer to the wall than its radius, and the    *)
(* right button held beside the bubble                                     *)

WallFrames == 4

\* bubbles left by presses of radius 20 released at (25, 150), (375, 150),
\* (200, 150) and (10, 150)
WallStores ==
    { << Sized(25, 150, 20, 0) >>, << Sized(375, 150, 20, 0) >>,
      << Sized(200, 150, 20, 0) >>, << Sized(10, 150, 20, 0) >> }

InitWalls == \E bs \in WallStores : Seeded(Numbered(bs), << >>, 0, {})

\* where the right button is pressed
WallPoints == { Pt(5, 150), Pt(60, 150), Pt(340, 150) }

NextWalls ==
    \/ Within(WallFrames,
              [dt |-> FrameMs, ready |-> TRUE, frame |-> TRUE, hands |-> << >>,
               rnd |-> Rnd("NEBULA", 2, 50)])
    \/ \E p \in WallPoints : ~mouse.isRightDown /\ MouseDown(2, p.x, p.y, Rnd("NEBULA", 2, 50))
    \/ mouse.isRightDown /\ MouseUp(Rnd("NEBULA", 2, 50))

SpecWalls == InitWalls /\ [][NextWalls]_vars

\* C27, as stated: at the end of every tick every bubble of the store that
\* is not frozen has radius <= x <= width - radius, and a bubble that was
\* put back at a wall in the tick has a horizontal velocity that does not
\* point into that wall.
C27_InsideWalls ==
    obs.kind = "tick" =>
        /\ \A k \in 1..Len(bubbles) :
              bubbles[k].state # "FROZEN" =>
                  /\ bubbles[k].x >= Radius(bubbles[k].rsq)
                  /\ bubbles[k].x <= WIDTH * PX - Radius(bubbles[k].rsq)
        /\ \A c \in Elems(obs.clamped) :
              \A b \in Stored(c.id) :
                  /\ c.wall = "left" => b.vx >= 0
                  /\ c.wall = "right" => b.vx <= 0

---------------------------------------------------------------------------
(* Floating away: bubbles left near the top of the canvas, alone, moving   *)
(* down after a push, sticking to each other or merging, and no hand and   *)
(* no mouse from then on                                                   *)

FloatFrames == 180

\* the bubbles the stores begin with were made at time 0, before the first tick
FloatStores ==
    { << Sized(200, 60, 20, 0) >>,
      << [ Sized(200, -20, 20, 0) EXCEPT !.vy = 3 * PX ] >>,
      << Sized(200, 40, 20, 0), Sized(250, 40, 20, 0) >>,
      << Sized(200, 40, 20, 0), Sized(210, 40, 30, 0) >>,
      << Sized(100, 20, 20, 0), Sized(150, 30, 25, 0), Sized(160, 35, 30, 0) >> }

InitFloat == \E bs \in FloatStores : Seeded(Numbered(bs), << >>, 0, {})

NextFloat ==
    Within(FloatFrames,
           [dt |-> FrameMs, ready |-> TRUE, frame |-> TRUE, hands |-> << >>,
            rnd |-> Rnd("NEBULA", 2, 50)])

SpecFloat == InitFloat /\ [][NextFloat]_vars

\* the ids of the bubbles the pair scan merged or pulled at in the handler
Gripped(log) ==
    UNION { {m.survivor, m.absorbed} : m \in Elems(log.merges) }
        \cup UNION { {c[1], c[2]} : c \in Elems(log.cohered) }

\* C28: with no hand and no mouse every floating bubble of the store is
\* removed in the end, by floating past the top (y < -2 * radius) or by a
\* merge that absorbs it, and a removal at the top makes no particles and
\* calls no onExpandUniverse.  In every tick bubbles are removed in these
\* two ways only and nothing bursts; a bubble the pair scan leaves alone
\* rises faster than before or at the terminal speed and moves by its
\* velocity; and after FloatFrames ticks no bubble the store began with is
\* left.
C28_FloatsAway ==
    [][ obs'.kind = "tick" =>
          /\ \A r \in Elems(obs'.removed) : r.cause \in {"top", "merge"}
          /\ obs'.bursts = << >> /\ obs'.expanded = << >>
          /\ hist'.bursts = << >> /\ hist'.expanded = << >>
          /\ particles' = << >>
          /\ \A k \in 1..Len(bubbles) :
                bubbles[k].id \notin Gripped(obs') =>
                    \/ /\ bubbles[k].y < -2 * Radius(bubbles[k].rsq)
                       /\ [id |-> bubbles[k].id, cause |-> "top"] \in Elems(obs'.removed)
                    \/ /\ bubbles[k].y >= -2 * Radius(bubbles[k].rsq)
                       /\ \E b \in {bubbles'[j] : j \in {i \in 1..Len(bubbles') : bubbles'[i].id = bubbles[k].id}} :
                             /\ b.vy < bubbles[k].vy \/ b.vy <= -98
                             /\ b.y = bubbles[k].y + b.vy
          /\ ticks' = FloatFrames => \A k \in 1..Len(bubbles') : bubbles'[k].creationTime > 0
      ]_vars

\* the survivor of a merge has floated past the top: every bubble the store
\* began with is gone, and there are no particles
C28_SurvivorGone ==
    /\ obs.kind = "tick"
    /\ \E r \in Elems(obs.removed) :
          /\ r.cause = "top"
          /\ \E k \in 1..Len(obs.before) : obs.before[k].id = r.id /\ obs.before[k].creationTime = 0
    /\ Cardinality(hist.dead) >= 2
    /\ \A k \in 1..Len(bubbles) : bubbles[k].creationTime > 0
    /\ particles = << >>

---------------------------------------------------------------------------
(* Frozen bubbles in the pair scan: a frozen bubble that overlaps a        *)
(* floating one, smaller or larger than it, or lies between two floating   *)
(* ones, two frozen bubbles that overlap, and a pointing hand that may     *)
(* freeze one of a pair                                                    *)

FrozenFrames == 4

FrozenStores ==
    { << Freeze(Sized(232, 258, 20, 0)), Sized(237, 258, 30, 0) >>,
      << Sized(232, 258, 20, 0), Freeze(Sized(237, 258, 30, 0)) >>,
      << Sized(232, 258, 20, 0), Freeze(Sized(236, 258, 25, 0)), Sized(240, 258, 30, 0) >>,
      << Freeze(Sized(232, 258, 20, 0)), Freeze(Sized(237, 258, 30, 0)) >>,
      << Sized(232, 258, 20, 0), Sized(280, 258, 20, 0) >> }

InitFrozen ==
    \E bs \in FrozenStores :
        Seeded(Numbered(bs), << >>, GRACE_MS, {k \in 1..Len(bs) : bs[k].state = "FROZEN"})

FrozenInputs ==
    { [dt |-> FrameMs, ready |-> TRUE, frame |-> TRUE, hands |-> hs, rnd |-> r] :
        hs \in { << >>, << PointX >> }, r \in Rnds }

NextFrozen == \E in \in FrozenInputs : Within(FrozenFrames, in)

SpecFrozen == InitFrozen /\ [][NextFrozen]_vars

\* C29: a bubble that is FROZEN when a handler begins takes no part in the
\* pair scan of that handler: it gets no cohesion force, it is neither the
\* survivor of a merge nor absorbed by one, and as long as it is in the
\* store its radius and its mass are what they were.
C29_FrozenOutOfScan ==
    [][ \A k \in 1..Len(bubbles) :
            bubbles[k].state = "FROZEN" =>
                /\ bubbles[k].id \notin Gripped(obs')
                /\ \A r \in Elems(obs'.removed) : r.id = bubbles[k].id => r.cause # "merge"
                /\ \A j \in 1..Len(bubbles') :
                      bubbles'[j].id = bubbles[k].id =>
                          /\ bubbles'[j].rsq = bubbles[k].rsq
                          /\ bubbles'[j].mass = bubbles[k].mass
                          /\ bubbles'[j].state = "FROZEN"
      ]_vars

\* two floating bubbles have merged across a frozen one that both of them
\* overlapped, and the frozen one is in the store as it was
C29_MergedAcrossFrozen ==
    /\ obs.kind = "tick"
    /\ obs.merges # << >>
    /\ \E k \in 1..Len(obs.before) :
          /\ obs.before[k].state = "FROZEN"
          /\ \E i \in 1..Len(obs.before) :
                /\ obs.before[i].state = "FLOATING"
                /\ Touching(dist(obs.before[i], obs.before[k]), obs.before[i], obs.before[k])
          /\ \E b \in Stored(obs.before[k].id) : b.state = "FROZEN" /\ b.rsq = obs.before[k].rsq

===========================================================================
